---------------------------- MODULE Spec2Model ----------------------------
(***************************************************************************)
(* A model of the retrieval-and-selection pipeline of the textbook RAG     *)
(* backend: request validation (models/query.py), the two retrieval        *)
(* strategies (services/retrieval_service.py), the selection handler       *)
(* (services/selection_handler.py), the orchestration of process_query     *)
(* (services/rag_service.py), its two callers (api/routes/query.py,        *)
(* services/chatkit_tools.py), the chunker (ingestion/chunker.py), the     *)
(* vector store (ingestion/vector_store.py) and the two ingestion scripts  *)
(* (scripts/ingest_content.py, scripts/simple_ingest.py).                  *)
(*                                                                         *)
(* Texts are kept as run-length word lists: a text is a record             *)
(*   [kind, runs, pad]                                                     *)
(* where runs is a sequence of [w |-> word, k |-> repetitions] and pad is  *)
(* the number of whitespace characters beyond the single separators, so    *)
(* that len(text), len(text.split()) and set(text.lower().split()) are     *)
(* all computable for passages of 2000 words.  Similarity scores are       *)
(* integers in hundredths; overlap and combined scores are exact           *)
(* fractions [num, den].                                                   *)
(***************************************************************************)
EXTENDS Integers, Sequences, FiniteSets, TLC

VARIABLES
    via,              \* the caller: "route", "chatkit" or "direct"
    raw,              \* the arguments handed to QueryRequest(...)
    request,          \* the constructed QueryRequest
    pc,               \* position of the request in the pipeline
    results,          \* retrieve_*: the list returned by vector_store.search
    initial_chunks,   \* process_query: initial_chunks
    retrieved_chunks, \* process_query: retrieved_chunks
    context,          \* process_query: context
    generated,        \* process_query: (response_text, confidence)
    answer,           \* the QueryResponse returned by process_query
    calls,            \* remote calls issued: [embed, search, complete]
    faults,           \* the steps that failed
    trace,            \* the steps of process_query completed so far
    outcome,          \* what the caller got back
    f_in,             \* filter_chunks_by_selection: its arguments
    f_out,            \* filter_chunks_by_selection: its return value
    f_pc,             \* filter_chunks_by_selection: called / returned
    c_in,             \* chunk_text: text and chunker configuration
    start_idx,        \* chunk_text: start_idx
    chunks,           \* chunk_text: chunks (with the window of each)
    c_pc,             \* chunk_text: position
    search_call,      \* process_query: how the retrieval and the search were called
    u_pc,             \* a function called on its own: which one, or the probe of health_check
    u_in,             \* ... its arguments
    u_out,            \* ... its return value
    g_pc,             \* an ingestion process: its position
    g_in,             \* ... its program, arguments and hash seed
    g_chunks,         \* ingest_content / upsert_chunks: the DocumentChunk list
    g_points,         \* upsert_chunks: points; simple_ingest: all_points
    g_i,              \* the offset i of the upsert loop
    g_file,           \* simple_ingest: how many files have been processed
    point_id,         \* simple_ingest: point_id
    index,            \* the collection in the vector index
    requests,         \* the upsert requests this process sent to the index
    g_out,            \* what the process reported when it ended
    g_runs,           \* how many ingestion processes have been started
    q_calls,          \* two concurrent process_query calls: their local variables
    service           \* the fields of the singleton RAGService and its parts

vars == <<via, raw, request, pc, results, initial_chunks, retrieved_chunks,
          context, generated, answer, calls, faults, trace, outcome,
          f_in, f_out, f_pc, c_in, start_idx, chunks, c_pc, search_call,
          u_pc, u_in, u_out, g_pc, g_in, g_chunks, g_points, g_i, g_file,
          point_id, index, requests, g_out, g_runs, q_calls, service>>

pipeVars == <<via, raw, request, pc, results, initial_chunks, retrieved_chunks,
              context, generated, answer, calls, faults, trace, outcome,
              search_call>>
filterVars == <<f_in, f_out, f_pc>>
chunkVars == <<c_in, start_idx, chunks, c_pc>>
unitVars == <<u_pc, u_in, u_out>>
ingestVars == <<g_pc, g_in, g_chunks, g_points, g_i, g_file, point_id, index,
                requests, g_out, g_runs>>
pairVars == <<q_calls, service>>

-----------------------------------------------------------------------------
(* Sequences                                                               *)

Take(s, k) == IF k <= 0 THEN <<>> ELSE SubSeq(s, 1, IF k < Len(s) THEN k ELSE Len(s))

Min(a, b) == IF a < b THEN a ELSE b

RECURSIVE SumSeq(_)
SumSeq(s) == IF s = <<>> THEN 0 ELSE Head(s) + SumSeq(Tail(s))

-----------------------------------------------------------------------------
(* Texts                                                                   *)

Text(runs, pad) == [kind |-> "text", runs |-> runs, pad |-> pad]
NoneText == [kind |-> "none", runs |-> <<>>, pad |-> 0]
Omitted == [kind |-> "omitted", runs |-> <<>>, pad |-> 0]
EmptyText == Text(<<>>, 0)

Run(w, k) == [w |-> w, k |-> k]

\* len(text.split())
WordCount(t) == SumSeq([i \in 1..Len(t.runs) |-> t.runs[i].k])

\* len(text): the words, one separator between two words, and the padding
CharLen(t) ==
    LET n == WordCount(t)
    IN  SumSeq([i \in 1..Len(t.runs) |-> t.runs[i].k * Len(t.runs[i].w)])
        + (IF n > 0 THEN n - 1 ELSE 0) + t.pad

\* Python truthiness of an Optional[str]
Truthy(t) == t.kind = "text" /\ CharLen(t) > 0

\* str.lower() on one word
Lower(w) ==
    CASE w = "ROS" -> "ros"
      [] w = "The" -> "the"
      [] w = "Sensor" -> "sensor"
      [] OTHER -> w

\* set(text.lower().split())
LowerWords(t) == {Lower(t.runs[i].w) : i \in {j \in 1..Len(t.runs) : t.runs[j].k > 0}}

-----------------------------------------------------------------------------
(* Exact fractions for the float scores                                    *)

Frac(n, d) == [num |-> n, den |-> d]
FracLess(a, b) == a.num * b.den < b.num * a.den
FracLeq(a, b) == a.num * b.den <= b.num * a.den

-----------------------------------------------------------------------------
(* services/selection_handler.py                                           *)

\* SelectionHandler.__init__: similarity_threshold = 0.3
similarity_threshold == Frac(3, 10)

stop_words ==
    {"the", "a", "an", "and", "or", "but", "in", "on", "at", "to", "for",
     "of", "with", "by", "from", "as", "is", "was", "are", "were", "been",
     "be", "have", "has", "had", "do", "does", "did", "will", "would",
     "could", "should", "may", "might", "can", "this", "that", "these",
     "those", "i", "you", "he", "she", "it", "we", "they", "what", "which",
     "who", "when", "where", "why", "how"}

\* SelectionHandler._extract_keywords
extract_keywords(text) ==
    {word \in LowerWords(text) : word \notin stop_words /\ Len(word) > 2}

\* an overlap score that divides by the number of keywords, not by the union
calculate_overlap_score_containment(chunk_text, selected_keywords) ==
    IF selected_keywords = {} THEN Frac(0, 1)
    ELSE LET chunk_words == LowerWords(chunk_text)
         IN  Frac(Cardinality(chunk_words \cap selected_keywords),
                  Cardinality(selected_keywords))

\* SelectionHandler._calculate_overlap_score
calculate_overlap_score(chunk_text, selected_keywords) ==
    IF selected_keywords = {} THEN Frac(0, 1)
    ELSE LET chunk_words == LowerWords(chunk_text)
             intersection == Cardinality(chunk_words \cap selected_keywords)
             union == Cardinality(chunk_words \cup selected_keywords)
         IN  IF union = 0 THEN Frac(0, 1) ELSE Frac(intersection, union)

\* dict.get(key, default) on a payload
Get(payload, key, default) ==
    IF key \in DOMAIN payload THEN payload[key] ELSE default

\* (vector_score * 0.6) + (overlap_score * 0.4), vector_score in hundredths
combined_score_of(vector_score, overlap_score) ==
    Frac(6 * vector_score * overlap_score.den + 400 * overlap_score.num,
         1000 * overlap_score.den)

\* the dictionary appended to scored_chunks for one chunk
score_chunk(chunk, selected_words) ==
    LET chunk_text == Get(chunk.payload, "chunk_text", EmptyText)
        overlap_score == calculate_overlap_score(chunk_text, selected_words)
    IN  [id |-> chunk.id, score |-> chunk.score, payload |-> chunk.payload,
         combined_score |-> combined_score_of(chunk.score, overlap_score),
         text_overlap |-> overlap_score]

\* an insertion that puts an item ahead of the items it ties with
RECURSIVE insert_sorted_ties_first(_, _)
insert_sorted_ties_first(sorted, x) ==
    IF sorted = <<>> THEN <<x>>
    ELSE IF FracLeq(Head(sorted).combined_score, x.combined_score)
         THEN <<x>> \o sorted
         ELSE <<Head(sorted)>> \o insert_sorted_ties_first(Tail(sorted), x)

\* list.sort(key=combined_score, reverse=True): stable, descending
RECURSIVE insert_sorted(_, _)
insert_sorted(sorted, x) ==
    IF sorted = <<>> THEN <<x>>
    ELSE IF FracLess(Head(sorted).combined_score, x.combined_score)
         THEN <<x>> \o sorted
         ELSE <<Head(sorted)>> \o insert_sorted(Tail(sorted), x)

RECURSIVE sort_by_combined(_)
sort_by_combined(s) ==
    IF s = <<>> THEN <<>>
    ELSE insert_sorted(sort_by_combined(SubSeq(s, 1, Len(s) - 1)), s[Len(s)])

meets_threshold(chunk) == FracLeq(similarity_threshold, chunk.text_overlap)

\* filter_chunks_by_selection without its fallback to the top chunks
filter_chunks_by_selection_no_fallback(chunks_in, selected_text, max_results) ==
    IF ~Truthy(selected_text) \/ chunks_in = <<>>
    THEN Take(chunks_in, max_results)
    ELSE LET selected_words == extract_keywords(selected_text)
             scored_chunks == sort_by_combined(
                 [i \in 1..Len(chunks_in) |-> score_chunk(chunks_in[i], selected_words)])
         IN  Take(SelectSeq(scored_chunks, meets_threshold), max_results)

\* filter_chunks_by_selection without the final [:max_results]
filter_chunks_by_selection_no_limit(chunks_in, selected_text, max_results) ==
    IF ~Truthy(selected_text) \/ chunks_in = <<>>
    THEN Take(chunks_in, max_results)
    ELSE LET selected_words == extract_keywords(selected_text)
             scored_chunks == sort_by_combined(
                 [i \in 1..Len(chunks_in) |-> score_chunk(chunks_in[i], selected_words)])
             above == SelectSeq(scored_chunks, meets_threshold)
         IN  IF above = <<>> /\ scored_chunks # <<>>
             THEN Take(scored_chunks, max_results)
             ELSE above

\* SelectionHandler.filter_chunks_by_selection
filter_chunks_by_selection(chunks_in, selected_text, max_results) ==
    IF ~Truthy(selected_text) \/ chunks_in = <<>>
    THEN Take(chunks_in, max_results)
    ELSE LET selected_words == extract_keywords(selected_text)
             scored_chunks == sort_by_combined(
                 [i \in 1..Len(chunks_in) |-> score_chunk(chunks_in[i], selected_words)])
             above == SelectSeq(scored_chunks, meets_threshold)
             filtered_chunks == IF above = <<>> /\ scored_chunks # <<>>
                                THEN Take(scored_chunks, max_results)
                                ELSE above
         IN  Take(filtered_chunks, max_results)

-----------------------------------------------------------------------------
(* models/query.py                                                         *)

\* Field(min_length=1, max_length=2000) of query_text
query_text_min_length == 1
query_text_max_length == 2000
\* Field(min_length=20, max_length=2000) of selected_text: characters
selected_text_min_length == 20
selected_text_max_length == 2000
\* Field(ge=1, le=20) of max_results
max_results_ge == 1
max_results_le == 20
\* validate_selected_text: words
min_words == 20
max_words == 2000

\* the field constraints of query_text
query_text_ok(q) ==
    /\ q.kind = "text"
    /\ query_text_min_length <= CharLen(q)
    /\ CharLen(q) <= query_text_max_length

\* the field constraints of max_results
max_results_ok(m) == max_results_ge <= m /\ m <= max_results_le

\* the field constraints of selected_text (Optional[str]: None passes)
selected_text_length_ok(v) ==
    v.kind = "text" =>
        /\ selected_text_min_length <= CharLen(v)
        /\ CharLen(v) <= selected_text_max_length

\* validate_selected_text without its word count
validate_selected_text_presence_only(v, query_mode) ==
    ~(query_mode = "selected-text" /\ ~Truthy(v))

\* QueryRequest.validate_selected_text: TRUE when it returns v, FALSE when
\* it raises ValueError
validate_selected_text(v, query_mode) ==
    /\ ~(query_mode = "selected-text" /\ ~Truthy(v))
    /\ Truthy(v) => /\ ~(WordCount(v) < min_words)
                    /\ ~(WordCount(v) > max_words)

\* pydantic on the selected_text argument: a field left out takes its
\* default without being validated; a given value passes the field
\* constraints and then the field validator
selected_text_ok(v, query_mode) ==
    v.kind # "omitted" =>
        /\ selected_text_length_ok(v)
        /\ validate_selected_text(v, query_mode)

\* QueryRequest(**args) succeeds
QueryRequestValid(args) ==
    /\ query_text_ok(args.query_text)
    /\ selected_text_ok(args.selected_text, args.query_mode)
    /\ max_results_ok(args.max_results)

\* the QueryRequest built from valid arguments
QueryRequest(args) ==
    [query_text |-> args.query_text,
     query_mode |-> args.query_mode,
     selected_text |-> IF args.selected_text.kind = "text"
                       THEN args.selected_text ELSE NoneText,
     max_results |-> args.max_results]

NoRequest ==
    [query_text |-> NoneText, query_mode |-> "none",
     selected_text |-> NoneText, max_results |-> 0]

\* SourceCitation: relevance_score has ge=0.0, le=1.0 (hundredths here)
SourceCitationValid(score) == 0 <= score /\ score <= 100

-----------------------------------------------------------------------------
(* The texts, the indexed points and the search results that are tried     *)

\* 20 words, ten of them keywords
SelKey ==
    Text(<<Run("ROS", 1), Run("node", 1), Run("topic", 1), Run("robot", 1),
           Run("sensor", 1), Run("motor", 1), Run("joint", 1), Run("torque", 1),
           Run("gait", 1), Run("lidar", 1), Run("The", 1), Run("the", 9)>>, 0)
\* 20 words, all of them stop words
SelStop == Text(<<Run("the", 5), Run("is", 5), Run("of", 5), Run("to", 5)>>, 0)
\* 1000 one-letter words: 1999 characters
Sel1000 == Text(<<Run("a", 1000)>>, 0)
\* 19 and 10 words, more than 20 characters
Sel19 == Text(<<Run("robot", 19)>>, 0)
Sel10 == Text(<<Run("robot", 10)>>, 0)
\* fewer than 20 characters
SelTiny == Text(<<Run("ros", 1), Run("node", 1)>>, 0)
\* 25 blanks
SelBlank == Text(<<>>, 25)
\* 400 words in 2399 characters
SelWide == Text(<<Run("robot", 400)>>, 0)
\* 2000 and 2001 one-letter words
Sel2000 == Text(<<Run("a", 2000)>>, 0)
Sel2001 == Text(<<Run("a", 2001)>>, 0)

Selections ==
    {Omitted, NoneText, EmptyText, SelKey, SelStop, Sel1000, Sel19, Sel10,
     SelTiny, SelBlank, SelWide, Sel2000, Sel2001}

QueryTexts ==
    {Text(<<Run("what", 1), Run("is", 1), Run("ros", 1)>>, 0),
     EmptyText,
     Text(<<Run("a", 1001)>>, 0)}

QueryModes == {"full-book", "selected-text"}

\* the largest in-range max_results tried; 0 and 21 are tried as well
MaxResultsTried == 2
MaxResultsInputs == (0..MaxResultsTried) \cup {max_results_le + 1}

\* the points of the collection
IndexedPoints ==
    {[id |-> 1,
      payload |-> [chapter_id |-> "ch1", chapter_title |-> "ROS 2 Basics",
                   module_id |-> "module-01-ros2", section_type |-> "concepts",
                   file_path |-> "docs/ch1.md",
                   chunk_text |-> Text(<<Run("ros", 1), Run("node", 1), Run("topic", 1),
                                         Run("robot", 1), Run("sensor", 1)>>, 0)]],
     [id |-> 2,
      payload |-> [chapter_id |-> "ch2", module_id |-> "module-02-sim",
                   file_path |-> "docs/ch2.md",
                   chunk_text |-> Text(<<Run("the", 1), Run("ros", 1), Run("node", 1),
                                         Run("topic", 1)>>, 0)]],
     [id |-> 3,
      payload |-> [chapter_title |-> "Sensors"]],
     [id |-> 4,
      payload |-> [chapter_id |-> "ch4", chapter_title |-> "Control",
                   section_type |-> "algorithms",
                   chunk_text |-> Text(<<Run("the", 2), Run("is", 1), Run("of", 1),
                                         Run("to", 1), Run("ros", 1), Run("node", 1),
                                         Run("topic", 1), Run("robot", 1),
                                         Run("Sensor", 1)>>, 0)]]}

\* similarity scores a search may report, in hundredths; 101 is a cosine
\* score that rounding has pushed above 1
Scores == {65, 80, 101}

\* the ranked lists of exactly k points with scores in lo..hi
RECURSIVE Ranked(_, _, _, _)
Ranked(k, points, lo, hi) ==
    IF k = 0 THEN {<<>>}
    ELSE UNION {
           UNION {
             {<<[id |-> p.id, score |-> sc, payload |-> p.payload]>> \o rest :
                 rest \in Ranked(k - 1, points \ {p}, lo, sc)} :
             sc \in {x \in Scores : lo <= x /\ x <= hi}} :
           p \in points}

\* what client.query_points may return for a limit and a score_threshold:
\* at most limit points, each at or above the threshold, best first
SearchResults(limit, score_threshold) ==
    UNION {Ranked(k, IndexedPoints, score_threshold, 101) :
               k \in 0..Min(limit, Cardinality(IndexedPoints))}

-----------------------------------------------------------------------------
(* services/retrieval_service.py                                           *)

full_book_score_threshold == 70
selected_text_score_threshold == 60
min_shared_words == 3

\* the words a result's chunk shares with the selected text
shared_words(result, selected_text) ==
    Cardinality(LowerWords(selected_text)
                \cap LowerWords(Get(result.payload, "chunk_text", EmptyText)))

\* retrieve_for_selected_text after the search: the lexical pre-filter
prefilter(search_results, selected_text, max_results) ==
    LET keep(result) == shared_words(result, selected_text) > min_shared_words
    IN  Take(SelectSeq(search_results, keep), max_results)

\* one block of format_context_for_llm
context_block(i, chunk) ==
    [rank |-> i,
     chapter_title |-> Get(chunk.payload, "chapter_title", "Unknown"),
     section_type |-> Get(chunk.payload, "section_type", "Unknown"),
     score |-> chunk.score,
     chunk_text |-> Get(chunk.payload, "chunk_text", EmptyText)]

\* RetrievalService.format_context_for_llm: the blocks, in order
format_context_for_llm(chunk_list) ==
    [i \in 1..Len(chunk_list) |-> context_block(i, chunk_list[i])]

\* len() of one rendered block:
\* "[Source i: title - section (relevance: 0.80)]\nchunk_text\n"
block_len(b) ==
    30 + (IF b.rank < 10 THEN 1 ELSE 2) + Len(b.chapter_title)
       + Len(b.section_type) + 4 + CharLen(b.chunk_text)

\* len() of "\n---\n".join(context_parts)
base_context_len(blocks) ==
    IF blocks = <<>> THEN 0
    ELSE SumSeq([i \in 1..Len(blocks) |-> block_len(blocks[i])])
         + 5 * (Len(blocks) - 1)

-----------------------------------------------------------------------------
(* services/selection_handler.py, services/response_generator.py           *)

\* SelectionHandler.enhance_context_with_selection
enhance_context_with_selection(base_context, selected_text) ==
    [highlighted |-> selected_text, base |-> base_context]

plain_context(base_context) == [highlighted |-> NoneText, base |-> base_context]

\* len(context)
context_len(ctx) ==
    IF ctx.highlighted.kind = "text"
    THEN 74 + CharLen(ctx.highlighted) + base_context_len(ctx.base)
    ELSE base_context_len(ctx.base)

\* str.lower() on one character
lower_char(c) ==
    CASE c = "A" -> "a" [] c = "B" -> "b" [] c = "C" -> "c" [] c = "D" -> "d"
      [] c = "E" -> "e" [] c = "F" -> "f" [] c = "G" -> "g" [] c = "H" -> "h"
      [] c = "I" -> "i" [] c = "J" -> "j" [] c = "K" -> "k" [] c = "L" -> "l"
      [] c = "M" -> "m" [] c = "N" -> "n" [] c = "O" -> "o" [] c = "P" -> "p"
      [] c = "Q" -> "q" [] c = "R" -> "r" [] c = "S" -> "s" [] c = "T" -> "t"
      [] c = "U" -> "u" [] c = "V" -> "v" [] c = "W" -> "w" [] c = "X" -> "x"
      [] c = "Y" -> "y" [] c = "Z" -> "z" [] OTHER -> c

\* str.lower()
RECURSIVE lower_str(_)
lower_str(str) ==
    IF Len(str) = 0 THEN ""
    ELSE lower_char(SubSeq(str, 1, 1)) \o lower_str(SubSeq(str, 2, Len(str)))

\* phrase in str
contains(str, phrase) ==
    \E i \in 1..(Len(str) - Len(phrase) + 1) : SubSeq(str, i, i + Len(phrase) - 1) = phrase

uncertainty_phrases ==
    {"I don't have enough information", "I'm not sure", "unclear", "cannot answer"}

\* the two tests _estimate_confidence makes on the response text
response_features(response_text) ==
    [cites |-> contains(response_text, "Source") \/ contains(response_text, "According to"),
     unsure |-> \E phrase \in uncertainty_phrases :
                   contains(lower_str(response_text), lower_str(phrase))]

\* what the completion may answer: whether the text holds a citation marker
\* ("Source", "According to") and whether it holds an uncertainty phrase
Responses ==
    {[cites |-> TRUE, unsure |-> FALSE], [cites |-> FALSE, unsure |-> TRUE]}

\* _estimate_confidence that counts a context of exactly 500 characters as
\* substantial
estimate_confidence_from_500(response, ctx) ==
    LET c0 == 50
        c1 == IF response.cites THEN c0 + 20 ELSE c0
        c2 == IF response.unsure THEN c1 - 30 ELSE c1
        c3 == IF context_len(ctx) >= 500 THEN c2 + 10 ELSE c2
        capped == IF c3 > 100 THEN 100 ELSE c3
    IN  IF capped < 0 THEN 0 ELSE capped

\* ResponseGenerator._estimate_confidence, in hundredths
estimate_confidence(response, ctx) ==
    LET c0 == 50
        c1 == IF response.cites THEN c0 + 20 ELSE c0
        c2 == IF response.unsure THEN c1 - 30 ELSE c1
        c3 == IF context_len(ctx) > 0 /\ context_len(ctx) > 500 THEN c2 + 10 ELSE c2
        capped == IF c3 > 100 THEN 100 ELSE c3
    IN  IF capped < 0 THEN 0 ELSE capped

-----------------------------------------------------------------------------
(* services/rag_service.py                                                 *)

\* a branch condition that looks at the mode alone
selected_branch_mode_only(req) == req.query_mode = "selected-text"

\* the branch condition of process_query, tested three times
selected_branch(req) ==
    req.query_mode = "selected-text" /\ Truthy(req.selected_text)

\* source_citation with the defaults of format_context_for_llm
source_citation_context_defaults(chunk) ==
    [chapter_id |-> Get(chunk.payload, "chapter_id", "unknown"),
     chapter_title |-> Get(chunk.payload, "chapter_title", "Unknown"),
     module_id |-> Get(chunk.payload, "module_id", "unknown-module"),
     section_type |-> Get(chunk.payload, "section_type", "Unknown"),
     file_path |-> Get(chunk.payload, "file_path", ""),
     chunk_text |-> Get(chunk.payload, "chunk_text", EmptyText),
     relevance_score |-> chunk.score]

\* one SourceCitation
source_citation(chunk) ==
    [chapter_id |-> Get(chunk.payload, "chapter_id", "unknown"),
     chapter_title |-> Get(chunk.payload, "chapter_title", "Unknown Chapter"),
     module_id |-> Get(chunk.payload, "module_id", "unknown-module"),
     section_type |-> Get(chunk.payload, "section_type", "general"),
     file_path |-> Get(chunk.payload, "file_path", ""),
     chunk_text |-> Get(chunk.payload, "chunk_text", EmptyText),
     relevance_score |-> chunk.score]

\* RAGService._extract_source_citations
extract_source_citations(chunk_list) ==
    [i \in 1..Len(chunk_list) |-> source_citation(chunk_list[i])]

\* whether every SourceCitation(...) of the loop is accepted by the model
citations_valid(chunk_list) ==
    \A i \in 1..Len(chunk_list) : SourceCitationValid(chunk_list[i].score)

\* QueryResponse(...) at the end of process_query
QueryResponse(gen, chunk_list) ==
    [present |-> TRUE,
     response |-> gen.response,
     source_citations |-> extract_source_citations(chunk_list),
     confidence_score |-> gen.confidence,
     retrieved_chunks |-> Len(chunk_list)]

NoAnswer ==
    [present |-> FALSE, response |-> [cites |-> FALSE, unsure |-> FALSE],
     source_citations |-> <<>>, confidence_score |-> 0, retrieved_chunks |-> 0]

NoContext == plain_context(<<>>)
NoGenerated ==
    [prompt |-> "none", response |-> [cites |-> FALSE, unsure |-> FALSE],
     confidence |-> 0]

-----------------------------------------------------------------------------
(* The callers: api/routes/query.py, services/chatkit_tools.py, and a      *)
(* direct call of RAGService.process_query                                 *)

Callers == {"route", "chatkit", "direct"}

NoOutcome == [kind |-> "none", status |-> 0]

\* the except clauses of the route: ValueError -> 400, Exception -> 500.
\* pydantic's ValidationError is a ValueError; HTTPException is not
route_except(exc) ==
    IF exc \in {"ValueError", "ValidationError"} THEN 400 ELSE 500

\* what the caller gets when QueryRequest(...) raises: FastAPI answers 422
\* before the handler runs, the tool handler returns its error dictionary
on_validation_error(caller) ==
    CASE caller = "route" -> [kind |-> "http", status |-> 422]
      [] caller = "chatkit" -> [kind |-> "tool_error", status |-> 0]
      [] OTHER -> [kind |-> "raised", status |-> 0]

\* what the caller gets when process_query raises exc
on_error(caller, exc) ==
    CASE caller = "route" -> [kind |-> "http", status |-> route_except(exc)]
      [] caller = "chatkit" -> [kind |-> "tool_error", status |-> 0]
      [] OTHER -> [kind |-> "raised", status |-> 0]

\* what the caller gets when process_query returns
on_answer(caller) ==
    CASE caller = "route" -> [kind |-> "http", status |-> 200]
      [] caller = "chatkit" -> [kind |-> "tool_success", status |-> 0]
      [] OTHER -> [kind |-> "returned", status |-> 0]

\* handle_search_textbook: query_mode from the truthiness of selected_text
chatkit_mode(selected_text) ==
    IF Truthy(selected_text) THEN "selected-text" ELSE "full-book"

\* the route's own check before it calls process_query
route_guard_fails(req) ==
    req.query_mode = "selected-text" /\ ~Truthy(req.selected_text)

NoCalls == [embed |-> 0, search |-> 0, complete |-> 0]

\* no retrieval has been called yet
NoSearchCall == [fn |-> "none", max_results |-> 0, limit |-> 0, score_threshold |-> 0]

\* max_results=request.max_results * 2 in the call of retrieve_for_selected_text
fetch_size_no_overfetch(req) == req.max_results

fetch_size(req) == req.max_results * 2

\* retrieve_for_selected_text(max_results): the search it issues
selected_text_search(max_results) ==
    [fn |-> "retrieve_for_selected_text", max_results |-> max_results,
     limit |-> max_results, score_threshold |-> selected_text_score_threshold]

\* retrieve_relevant_chunks(max_results, score_threshold): the search it issues
full_book_search(max_results, score_threshold) ==
    [fn |-> "retrieve_relevant_chunks", max_results |-> max_results,
     limit |-> max_results, score_threshold |-> score_threshold]

PipeInit ==
    /\ via = "none"
    /\ raw = NoRequest
    /\ request = NoRequest
    /\ pc = "idle"
    /\ results = <<>>
    /\ initial_chunks = <<>>
    /\ retrieved_chunks = <<>>
    /\ context = NoContext
    /\ generated = NoGenerated
    /\ answer = NoAnswer
    /\ calls = NoCalls
    /\ faults = {}
    /\ trace = <<>>
    /\ outcome = NoOutcome
    /\ search_call = NoSearchCall

\* QueryRequest(...) is built from the caller's arguments: by FastAPI from
\* the body, by handle_search_textbook, or by the direct caller
construct_request ==
    /\ pc = "idle"
    /\ \E caller \in Callers, q \in QueryTexts, mode \in QueryModes,
          sel \in Selections, m \in MaxResultsInputs :
         /\ caller = "chatkit" => sel.kind # "omitted" /\ mode = chatkit_mode(sel)
         /\ LET args == [query_text |-> q, query_mode |-> mode,
                         selected_text |-> sel, max_results |-> m]
            IN  /\ via' = caller
                /\ raw' = args
                /\ IF QueryRequestValid(args)
                   THEN /\ request' = QueryRequest(args)
                        /\ pc' = "constructed"
                        /\ outcome' = NoOutcome
                   ELSE /\ request' = NoRequest
                        /\ pc' = "rejected"
                        /\ outcome' = on_validation_error(caller)
    /\ UNCHANGED <<results, initial_chunks, retrieved_chunks, context, generated,
                   answer, calls, faults, trace, search_call, filterVars, chunkVars, unitVars, ingestVars, pairVars>>

\* the route raises HTTPException(400) inside its own try block
route_guard ==
    /\ pc = "constructed"
    /\ via = "route"
    /\ route_guard_fails(request)
    /\ pc' = "refused"
    /\ outcome' = on_error("route", "HTTPException")
    /\ UNCHANGED <<via, raw, request, results, initial_chunks, retrieved_chunks,
                   context, generated, answer, calls, faults, trace,
                   search_call, filterVars, chunkVars, unitVars, ingestVars, pairVars>>

\* rag_service.process_query(request) is entered
enter_process_query ==
    /\ pc = "constructed"
    /\ ~(via = "route" /\ route_guard_fails(request))
    /\ pc' = IF selected_branch(request) THEN "embed_selected" ELSE "embed_query"
    /\ UNCHANGED <<via, raw, request, results, initial_chunks, retrieved_chunks,
                   context, generated, answer, calls, faults, trace, outcome,
                   search_call, filterVars, chunkVars, unitVars, ingestVars, pairVars>>

\* an exception leaves process_query
raise(step, exc) ==
    /\ pc' = "failed"
    /\ faults' = faults \cup {step}
    /\ outcome' = on_error(via, exc)
    /\ UNCHANGED <<answer>>

\* generate_embedding that is called once more after its first failure
generate_embedding_retry_once ==
    /\ pc \in {"embed_selected", "embed_query"}
    /\ calls' = [calls EXCEPT !.embed = @ + 1]
    /\ \/ /\ pc' = IF pc = "embed_selected" THEN "embed_query" ELSE "search"
          /\ UNCHANGED <<faults, outcome, answer>>
       \/ /\ calls.embed = 0
          /\ UNCHANGED <<pc, faults, outcome, answer>>
       \/ /\ calls.embed > 0
          /\ raise("embedding", "RemoteError")
    /\ UNCHANGED <<via, raw, request, results, initial_chunks, retrieved_chunks,
                   context, generated, trace, search_call,
                   filterVars, chunkVars, unitVars, ingestVars, pairVars>>

\* embedder.generate_embedding: the selected text first, then the query
generate_embedding ==
    /\ pc \in {"embed_selected", "embed_query"}
    /\ calls' = [calls EXCEPT !.embed = @ + 1]
    /\ \/ /\ pc' = IF pc = "embed_selected" THEN "embed_query" ELSE "search"
          /\ UNCHANGED <<faults, outcome, answer>>
       \/ raise("embedding", "RemoteError")
    /\ UNCHANGED <<via, raw, request, results, initial_chunks, retrieved_chunks,
                   context, generated, trace, search_call, filterVars, chunkVars, unitVars, ingestVars, pairVars>>

\* vector_store.search and the rest of retrieve_relevant_chunks /
\* retrieve_for_selected_text
vector_search ==
    /\ pc = "search"
    /\ calls' = [calls EXCEPT !.search = @ + 1]
    /\ \/ /\ selected_branch(request)
          /\ LET call == selected_text_search(fetch_size(request))
             IN  /\ search_call' = call
                 /\ \E found \in SearchResults(call.limit, call.score_threshold) :
                      /\ results' = found
                      /\ initial_chunks' = prefilter(found, request.selected_text,
                                                     call.max_results)
          /\ pc' = "filter"
          /\ trace' = Append(trace, "Retrieving")
          /\ UNCHANGED <<retrieved_chunks, faults, outcome, answer>>
       \/ /\ ~selected_branch(request)
          /\ LET call == full_book_search(request.max_results,
                                          full_book_score_threshold)
             IN  /\ search_call' = call
                 /\ \E found \in SearchResults(call.limit, call.score_threshold) :
                      /\ results' = found
                      /\ retrieved_chunks' = found
          /\ pc' = "context"
          /\ trace' = Append(trace, "Retrieving")
          /\ UNCHANGED <<initial_chunks, faults, outcome, answer>>
       \/ /\ raise("search", "RemoteError")
          /\ search_call' = IF selected_branch(request)
                            THEN selected_text_search(fetch_size(request))
                            ELSE full_book_search(request.max_results,
                                                  full_book_score_threshold)
          /\ UNCHANGED <<results, initial_chunks, retrieved_chunks, trace>>
    /\ UNCHANGED <<via, raw, request, context, generated, filterVars, chunkVars,
                   unitVars, ingestVars, pairVars>>

\* selection_handler.filter_chunks_by_selection on initial_chunks
selection_filter ==
    /\ pc = "filter"
    /\ retrieved_chunks' = filter_chunks_by_selection(
           initial_chunks, request.selected_text, request.max_results)
    /\ pc' = "context"
    /\ trace' = Append(trace, "SelectedTextFiltering")
    /\ UNCHANGED <<via, raw, request, results, initial_chunks, context, generated,
                   answer, calls, faults, outcome, search_call, filterVars, chunkVars, unitVars, ingestVars, pairVars>>

\* format_context_for_llm and, in selected-text mode, the enhancement
assemble_context ==
    /\ pc = "context"
    /\ context' = IF selected_branch(request)
                  THEN enhance_context_with_selection(
                           format_context_for_llm(retrieved_chunks),
                           request.selected_text)
                  ELSE plain_context(format_context_for_llm(retrieved_chunks))
    /\ pc' = "generate"
    /\ trace' = Append(trace, "ContextAssembled")
    /\ UNCHANGED <<via, raw, request, results, initial_chunks, retrieved_chunks,
                   generated, answer, calls, faults, outcome, search_call, filterVars, chunkVars, unitVars, ingestVars, pairVars>>

\* generate_response / generate_response_with_selected_text: one completion
generate_response ==
    /\ pc = "generate"
    /\ calls' = [calls EXCEPT !.complete = @ + 1]
    /\ \/ /\ \E response \in Responses :
               generated' = [prompt |-> IF selected_branch(request)
                                        THEN "selected-text" ELSE "full-book",
                             response |-> response,
                             confidence |-> estimate_confidence(response, context)]
          /\ pc' = "citations"
          /\ trace' = Append(trace, "Generating")
          /\ UNCHANGED <<faults, outcome, answer>>
       \/ /\ raise("completion", "RemoteError")
          /\ UNCHANGED <<generated, trace>>
    /\ UNCHANGED <<via, raw, request, results, initial_chunks, retrieved_chunks,
                   context, search_call, filterVars, chunkVars, unitVars, ingestVars, pairVars>>

\* build_response that drops the citations the model refuses and answers
build_response_skip_invalid ==
    /\ pc = "citations"
    /\ LET valid(chunk) == SourceCitationValid(chunk.score)
       IN  answer' = QueryResponse(generated, SelectSeq(retrieved_chunks, valid))
    /\ pc' = "done"
    /\ trace' = trace \o <<"CitationsExtracted", "Done">>
    /\ outcome' = on_answer(via)
    /\ UNCHANGED <<via, raw, request, results, initial_chunks, retrieved_chunks,
                   context, generated, calls, faults, search_call, filterVars, chunkVars, unitVars, ingestVars, pairVars>>

\* _extract_source_citations and the QueryResponse that is returned
build_response ==
    /\ pc = "citations"
    /\ IF citations_valid(retrieved_chunks)
       THEN /\ answer' = QueryResponse(generated, retrieved_chunks)
            /\ pc' = "done"
            /\ trace' = trace \o <<"CitationsExtracted", "Done">>
            /\ outcome' = on_answer(via)
            /\ UNCHANGED faults
       ELSE /\ raise("citation", "ValidationError")
            /\ UNCHANGED trace
    /\ UNCHANGED <<via, raw, request, results, initial_chunks, retrieved_chunks,
                   context, generated, calls, search_call, filterVars, chunkVars, unitVars, ingestVars, pairVars>>

-----------------------------------------------------------------------------
(* filter_chunks_by_selection called on its own                            *)

\* the longest candidate list and the largest max_results tried
MaxCandidates == 3
MaxFilterResults == 3

\* candidate lists as the search and the pre-filter hand them over: ranked
\* by descending similarity score
CandidateLists ==
    UNION {Ranked(k, IndexedPoints, 0, 101) :
               k \in 0..Min(MaxCandidates, Cardinality(IndexedPoints))}

FilterSelections == {NoneText, EmptyText, SelBlank, SelTiny, SelKey, SelStop}

NoFilterInput == [chunk_list |-> <<>>, selected_text |-> NoneText, max_results |-> 0]

FilterIdle ==
    /\ f_in = NoFilterInput
    /\ f_out = <<>>
    /\ f_pc = "idle"

filter_call ==
    /\ f_pc = "idle"
    /\ \E cl \in CandidateLists, sel \in FilterSelections, m \in 0..MaxFilterResults :
         f_in' = [chunk_list |-> cl, selected_text |-> sel, max_results |-> m]
    /\ f_pc' = "called"
    /\ UNCHANGED <<f_out, pipeVars, chunkVars, unitVars, ingestVars, pairVars>>

filter_return ==
    /\ f_pc = "called"
    /\ f_out' = filter_chunks_by_selection(f_in.chunk_list, f_in.selected_text,
                                           f_in.max_results)
    /\ f_pc' = "returned"
    /\ UNCHANGED <<f_in, pipeVars, chunkVars, unitVars, ingestVars, pairVars>>

-----------------------------------------------------------------------------
(* ingestion/chunker.py                                                    *)

\* A text to chunk is a sequence of [w |-> word, sep |-> the whitespace
\* that follows it]; " ".join(words) has a single blank after every word
\* but the last.

MaxWords == 4
MaxChunkSize == 3
MaxOverlap == 3
\* the loop of chunk_text is cut off after this many chunks
MaxChunks == MaxWords + 2

ChunkWords == {"ab", "c."}
Separators == {" ", "\n\n"}

ChunkTexts ==
    UNION {[1..n -> [w : ChunkWords, sep : Separators]] : n \in 0..MaxWords}

\* text.split()
split(text) == [i \in 1..Len(text) |-> text[i].w]

\* " ".join(words)
join(words) ==
    [i \in 1..Len(words) |->
        [w |-> words[i], sep |-> IF i < Len(words) THEN " " ELSE ""]]

\* words[a:b] with Python's treatment of negative and oversized indices
PySlice(words, a, b) ==
    LET n == Len(words)
        lo == IF a < 0 THEN (IF n + a < 0 THEN 0 ELSE n + a) ELSE Min(a, n)
        hi == IF b < 0 THEN (IF n + b < 0 THEN 0 ELSE n + b) ELSE Min(b, n)
    IN  IF hi <= lo THEN <<>> ELSE SubSeq(words, lo + 1, hi)

\* len(text)
text_len(text) ==
    SumSeq([i \in 1..Len(text) |-> Len(text[i].w) + Len(text[i].sep)])

\* the offset just after word i of text
word_end(text, i) ==
    SumSeq([j \in 1..i |-> Len(text[j].w) + (IF j < i THEN Len(text[j].sep) ELSE 0)])

\* text[:word_end(i)], stripped: the first i words
first_words(text, i) ==
    [j \in 1..i |-> [w |-> text[j].w, sep |-> IF j < i THEN text[j].sep ELSE ""]]

ends_sentence(word) ==
    Len(word) > 0 /\ SubSeq(word, Len(word), Len(word)) \in {".", "!", "?"}

\* TextChunker._adjust_to_boundary
adjust_to_boundary(text) ==
    LET breaks == {i \in 1..Len(text) : text[i].sep = "\n\n"}
        first_break == CHOOSE i \in breaks : \A j \in breaks : i <= j
        sentence_ends == {i \in 1..Len(text) :
                             /\ ends_sentence(text[i].w)
                             /\ Len(text[i].sep) > 0
                             /\ 2 * (word_end(text, i) + Len(text[i].sep)) > text_len(text)}
        last_end == CHOOSE i \in sentence_ends : \A j \in sentence_ends : j <= i
    IN  IF breaks # {} /\ 2 * word_end(text, first_break) > text_len(text)
        THEN first_words(text, first_break)
        ELSE IF sentence_ends # {}
             THEN first_words(text, last_end)
             ELSE text

\* next_start that steps back one word too few
next_start_off_by_one(end_idx, overlap_size) == end_idx - overlap_size + 1

\* start_idx = end_idx - self.overlap_size
next_start(end_idx, overlap_size) == end_idx - overlap_size

NoChunkInput ==
    [text |-> <<>>, chunk_size |-> 0, overlap_size |-> 0, respect_boundaries |-> FALSE]

ChunkIdle ==
    /\ c_in = NoChunkInput
    /\ start_idx = 0
    /\ chunks = <<>>
    /\ c_pc = "idle"

\* chunk_text up to the loop: the empty text and the text that fits in one
\* chunk return at once
chunk_text_call ==
    /\ c_pc = "idle"
    /\ \E text \in ChunkTexts, cs \in 0..MaxChunkSize, ov \in 0..MaxOverlap,
          rb \in BOOLEAN :
         /\ c_in' = [text |-> text, chunk_size |-> cs, overlap_size |-> ov,
                     respect_boundaries |-> rb]
         /\ IF text = <<>>
            THEN /\ chunks' = <<>>
                 /\ c_pc' = "returned"
            ELSE IF Len(split(text)) <= cs
                 THEN /\ chunks' = <<[start |-> 0, end |-> Len(text), text |-> text]>>
                      /\ c_pc' = "returned"
                 ELSE /\ chunks' = <<>>
                      /\ c_pc' = "loop"
    /\ start_idx' = 0
    /\ UNCHANGED <<pipeVars, filterVars, unitVars, ingestVars, pairVars>>

\* an iteration that resumes after the text it emitted, not after the window
chunk_text_step_resume_after_trim ==
    /\ c_pc = "loop"
    /\ Len(chunks) < MaxChunks
    /\ LET words == split(c_in.text)
           end_idx == Min(start_idx + c_in.chunk_size, Len(words))
           joined == join(PySlice(words, start_idx, end_idx))
           emitted == IF c_in.respect_boundaries /\ end_idx < Len(words)
                      THEN adjust_to_boundary(joined)
                      ELSE joined
           resume == next_start(start_idx + Len(emitted), c_in.overlap_size)
       IN  /\ chunks' = Append(chunks, [start |-> start_idx, end |-> end_idx,
                                        text |-> emitted])
           /\ IF end_idx >= Len(words)
              THEN /\ c_pc' = "returned"
                   /\ start_idx' = start_idx
              ELSE /\ start_idx' = resume
                   /\ c_pc' = IF resume < Len(words) THEN "loop" ELSE "returned"
    /\ UNCHANGED <<c_in, pipeVars, filterVars, unitVars, ingestVars, pairVars>>

\* one iteration of the while loop of chunk_text
chunk_text_step ==
    /\ c_pc = "loop"
    /\ Len(chunks) < MaxChunks
    /\ LET words == split(c_in.text)
           end_idx == Min(start_idx + c_in.chunk_size, Len(words))
           chunk_words == PySlice(words, start_idx, end_idx)
           joined == join(chunk_words)
           emitted == IF c_in.respect_boundaries /\ end_idx < Len(words)
                      THEN adjust_to_boundary(joined)
                      ELSE joined
       IN  /\ chunks' = Append(chunks, [start |-> start_idx, end |-> end_idx,
                                        text |-> emitted])
           /\ IF end_idx >= Len(words)
              THEN /\ c_pc' = "returned"
                   /\ start_idx' = start_idx
              ELSE /\ start_idx' = next_start(end_idx, c_in.overlap_size)
                   /\ c_pc' = IF next_start(end_idx, c_in.overlap_size) < Len(words)
                              THEN "loop" ELSE "returned"
    /\ UNCHANGED <<c_in, pipeVars, filterVars, unitVars, ingestVars, pairVars>>

\* the while loop of chunk_text from start, as a function of the input: the
\* chunks appended to acc until the loop breaks or its condition fails
RECURSIVE chunk_loop(_, _, _)
chunk_loop(input, start, acc) ==
    LET words == split(input.text)
        end_idx == Min(start + input.chunk_size, Len(words))
        joined == join(PySlice(words, start, end_idx))
        emitted == IF input.respect_boundaries /\ end_idx < Len(words)
                   THEN adjust_to_boundary(joined)
                   ELSE joined
        appended == Append(acc, [start |-> start, end |-> end_idx, text |-> emitted])
    IN  IF ~(start < Len(words)) \/ Len(acc) >= MaxChunks
        THEN acc
        ELSE IF end_idx >= Len(words)
             THEN appended
             ELSE chunk_loop(input, next_start(end_idx, input.overlap_size), appended)

\* TextChunker.chunk_text as a function of the text and the configuration
chunk_text(input) ==
    IF input.text = <<>>
    THEN <<>>
    ELSE IF Len(split(input.text)) <= input.chunk_size
         THEN <<[start |-> 0, end |-> Len(input.text), text |-> input.text]>>
         ELSE chunk_loop(input, 0, <<>>)

-----------------------------------------------------------------------------
(* Functions called on their own                                           *)

NoUnitValue == [none |-> TRUE]

UnitIdle ==
    /\ u_pc = "idle"
    /\ u_in = NoUnitValue
    /\ u_out = NoUnitValue

\* texts of up to two distinct-case words, to be scored against each other
OverlapWords == {"ROS", "node", "the"}
OverlapTexts ==
    {EmptyText}
    \cup {Text(<<Run(w, 1)>>, 0) : w \in OverlapWords}
    \cup {Text(<<Run(v, 1), Run(w, 1)>>, 0) : v \in OverlapWords, w \in OverlapWords}

\* _calculate_overlap_score on the words of a against the words of b, and
\* on the words of b against the words of a
overlap_call ==
    /\ u_pc = "idle"
    /\ \E a \in OverlapTexts, b \in OverlapTexts :
         /\ u_in' = [a |-> a, b |-> b]
         /\ u_out' = [ab |-> calculate_overlap_score(a, LowerWords(b)),
                      ba |-> calculate_overlap_score(b, LowerWords(a))]
    /\ u_pc' = "overlap"
    /\ UNCHANGED <<pipeVars, filterVars, chunkVars, ingestVars, pairVars>>

(* ingestion/embedder.py *)

dimension_ada_002 == 1536
dimension_3_small == 1536
dimension_3_large == 3072
dimension_default == 1536

\* str.startswith
startswith(str, prefix) ==
    Len(str) >= Len(prefix) /\ SubSeq(str, 1, Len(prefix)) = prefix

\* get_embedding_dimension that compares every known name with ==
get_embedding_dimension_exact(model) ==
    IF model = "text-embedding-ada-002" THEN dimension_ada_002
    ELSE IF model = "text-embedding-3-small" THEN dimension_3_small
    ELSE IF model = "text-embedding-3-large" THEN dimension_3_large
    ELSE dimension_default

\* EmbeddingGenerator.get_embedding_dimension
get_embedding_dimension(model) ==
    IF model = "text-embedding-ada-002" THEN dimension_ada_002
    ELSE IF startswith(model, "text-embedding-3-small") THEN dimension_3_small
    ELSE IF startswith(model, "text-embedding-3-large") THEN dimension_3_large
    ELSE dimension_default

ModelNames ==
    {"text-embedding-ada-002", "text-embedding-ada-002-v2",
     "text-embedding-3-small", "text-embedding-3-small-v2",
     "text-embedding-3-large", "text-embedding-3-large-v2",
     "text-embedding-3", "Text-Embedding-3-Large", "gpt-4o", ""}

get_embedding_dimension_call ==
    /\ u_pc = "idle"
    /\ \E model \in ModelNames :
         /\ u_in' = [model |-> model]
         /\ u_out' = get_embedding_dimension(model)
    /\ u_pc' = "dimension"
    /\ UNCHANGED <<pipeVars, filterVars, chunkVars, ingestVars, pairVars>>

(* services/response_generator.py *)

\* texts a completion may hold
ResponseTexts ==
    {"", "ROS 2 is a middleware.", "See Source 1.", "According to chapter 2, yes.",
     "the source is chapter 2", "Source 1 is unclear on this.",
     "I DON'T HAVE ENOUGH INFORMATION", "I'm not sure.", "It Cannot Answer that."}

\* contexts of 0, 184, 500 and 501 characters, and one of a single source block
ConfidenceContexts ==
    {plain_context(<<>>),
     enhance_context_with_selection(<<>>, SelKey),
     enhance_context_with_selection(<<>>, Text(<<Run("a", 213)>>, 1)),
     enhance_context_with_selection(<<>>, Text(<<Run("a", 213)>>, 2)),
     enhance_context_with_selection(<<>>, Sel1000)}

estimate_confidence_call ==
    /\ u_pc = "idle"
    /\ \E response_text \in ResponseTexts, ctx \in ConfidenceContexts :
         /\ u_in' = [response |-> response_text, context |-> ctx]
         /\ u_out' = estimate_confidence(response_features(response_text), ctx)
    /\ u_pc' = "confidence"
    /\ UNCHANGED <<pipeVars, filterVars, chunkVars, ingestVars, pairVars>>

(* services/rag_service.py: health_check *)

\* the collection-listing call of the client failed
raises_listing(listing) == SubSeq(listing, 1, 8) = "raises: "

\* what the index does when asked for its list of collections
IndexConditions ==
    {"collection listed", "collection not listed",
     "raises: timed out", "raises: connection refused"}

\* ingestion/vector_store.py: collection_exists; try: get_collections(),
\* any(name == collection_name); except Exception: return False
collection_exists(listing) ==
    IF raises_listing(listing) THEN "False"
    ELSE IF listing = "collection listed" THEN "True"
    ELSE "False"

\* what each probe may do: its value, or the message of its exception
EmbedderProbes == {"vector", "empty list", "None", "raises: timed out", "raises: invalid api key"}
ClientProbes == {"client", "None", "raises: no attribute"}

raises(probe) == startswith(probe, "raises: ")

\* f"error: {str(e)}"
error_status(probe) == "error: " \o SubSeq(probe, 9, Len(probe))

\* status = {...: "unknown"} at the start of health_check
health_check_call ==
    /\ u_pc = "idle"
    /\ \E listing \in IndexConditions, embedder \in EmbedderProbes,
          client \in ClientProbes :
         u_in' = [index |-> listing, vector_store |-> collection_exists(listing),
                  embedder |-> embedder, response_generator |-> client]
    /\ u_out' = [vector_store |-> "unknown", embedder |-> "unknown",
                 response_generator |-> "unknown"]
    /\ u_pc' = "check_vector_store"
    /\ UNCHANGED <<pipeVars, filterVars, chunkVars, ingestVars, pairVars>>

\* try: collection_exists() ... except Exception
check_vector_store ==
    /\ u_pc = "check_vector_store"
    /\ u_out' = [u_out EXCEPT !.vector_store =
                     IF raises(u_in.vector_store) THEN error_status(u_in.vector_store)
                     ELSE IF u_in.vector_store = "True" THEN "healthy"
                     ELSE "no_collection"]
    /\ u_pc' = "check_embedder"
    /\ UNCHANGED <<u_in, pipeVars, filterVars, chunkVars, ingestVars, pairVars>>

\* a health_check whose embedder probe is skipped when the store is not healthy
check_embedder_if_store_healthy ==
    /\ u_pc = "check_embedder"
    /\ u_out' = [u_out EXCEPT !.embedder =
                     IF u_out.vector_store # "healthy" THEN "unknown"
                     ELSE IF raises(u_in.embedder) THEN error_status(u_in.embedder)
                     ELSE IF u_in.embedder = "vector" THEN "healthy"
                     ELSE "error: empty embedding"]
    /\ u_pc' = "check_response_generator"
    /\ UNCHANGED <<u_in, pipeVars, filterVars, chunkVars, ingestVars, pairVars>>

\* try: generate_embedding("test") ... except Exception
check_embedder ==
    /\ u_pc = "check_embedder"
    /\ u_out' = [u_out EXCEPT !.embedder =
                     IF raises(u_in.embedder) THEN error_status(u_in.embedder)
                     ELSE IF u_in.embedder = "vector" THEN "healthy"
                     ELSE "error: empty embedding"]
    /\ u_pc' = "check_response_generator"
    /\ UNCHANGED <<u_in, pipeVars, filterVars, chunkVars, ingestVars, pairVars>>

\* try: if self.response_generator.client ... except Exception; return status
check_response_generator ==
    /\ u_pc = "check_response_generator"
    /\ u_out' = [u_out EXCEPT !.response_generator =
                     IF raises(u_in.response_generator)
                     THEN error_status(u_in.response_generator)
                     ELSE IF u_in.response_generator = "client" THEN "healthy"
                     ELSE @]
    /\ u_pc' = "health_check_returned"
    /\ UNCHANGED <<u_in, pipeVars, filterVars, chunkVars, ingestVars, pairVars>>

-----------------------------------------------------------------------------
(* ingestion/vector_store.py: upsert_chunks; scripts/ingest_content.py     *)

\* at most this many ingestion processes run one after the other on the
\* same index
MaxRuns == 2

\* Optional[list[float]]: None, or a list of len floats
NoEmbedding == [is_none |-> TRUE, len |-> 0]
Vector(n) == [is_none |-> FALSE, len |-> n]

\* str(i) of a non-negative integer
digit(d) == SubSeq("0123456789", d + 1, d + 1)

RECURSIVE decimal(_)
decimal(i) == IF i < 10 THEN digit(i) ELSE decimal(i \div 10) \o digit(i % 10)

\* hash() of a str is salted with a seed drawn when the process starts
\* (PYTHONHASHSEED); within one process it is a function of the string.
\* The 64-bit hash is scaled to HashBits bits, the seeds to 0..MaxSeed.
HashBits == 6
MaxSeed == 1
HashSeeds == 0..MaxSeed

Alphabet == "abcdefghijklmnopqrstuvwxyz0123456789-_."

ord(c) == CHOOSE i \in 1..Len(Alphabet) : SubSeq(Alphabet, i, i) = c

RECURSIVE hash_from(_, _, _)
hash_from(h, s, i) ==
    IF i > Len(s) THEN h
    ELSE hash_from((h * 31 + ord(SubSeq(s, i, i))) % (2 ^ HashBits), s, i + 1)

\* hash(s): a signed integer of HashBits bits
hash(seed, s) ==
    LET u == hash_from(seed, s, 1)
    IN  IF u >= 2 ^ (HashBits - 1) THEN u - 2 ^ HashBits ELSE u

\* id=hash(chunk.chunk_id) % (2**63)
point_id_of(seed, chunk_id) == hash(seed, chunk_id) % (2 ^ (HashBits - 1))

\* PointStruct(id, vector, payload); the payload names the chunk by its
\* file_path, section_type and chunk_index
PointStruct(id, vector, source) == [id |-> id, vector |-> vector, source |-> source]

\* the collection textbook_chapters of the index: whether it exists, the
\* vector size it was created with and the points it holds
NoCollection == [exists |-> FALSE, size |-> 0, points |-> {}]
Collection(size) == [exists |-> TRUE, size |-> size, points |-> {}]

\* the index before the first ingestion process
InitialIndexes ==
    {NoCollection, Collection(dimension_ada_002), Collection(dimension_3_large)}

\* the index takes a batch only into an existing collection and only if
\* every vector has the size of the collection
accepts(ix, batch) ==
    /\ ix.exists
    /\ \A k \in 1..Len(batch) :
           ~batch[k].vector.is_none /\ batch[k].vector.len = ix.size

\* client.upsert: the points of the batch replace the stored points of the
\* same id, a later point of the batch replacing an earlier one
upserted(ix, batch) ==
    LET ids == {batch[k].id : k \in 1..Len(batch)}
        last(id) == CHOOSE k \in 1..Len(batch) :
                        /\ batch[k].id = id
                        /\ \A j \in (k + 1)..Len(batch) : batch[j].id # id
    IN  [ix EXCEPT !.points =
            {p \in ix.points : p.id \notin ids} \cup {batch[last(id)] : id \in ids}]

\* the record kept of one client.upsert call
request_of(ix, batch, ok) ==
    [n |-> Len(batch),
     lens |-> {batch[k].vector.len : k \in 1..Len(batch)},
     exists |-> ix.exists,
     size |-> ix.size,
     ok |-> ok]

batch_size == 100

\* what a process that has not ended has reported: nothing
NoReport == [kind |-> "none", exc |-> "", told |-> {}, printed |-> <<>>]

NoIngestInput == [program |-> "none", seed |-> 0]

IngestIdle ==
    /\ g_pc = "idle"
    /\ g_in = NoIngestInput
    /\ g_chunks = <<>>
    /\ g_points = <<>>
    /\ g_i = 0
    /\ g_file = 0
    /\ point_id = 0
    /\ index = NoCollection
    /\ requests = <<>>
    /\ g_out = NoReport
    /\ g_runs = 0

\* DocumentChunk(chunk_id, embedding, metadata)
DocumentChunk(chunk_id, embedding, file_path, section_type, chunk_index) ==
    [chunk_id |-> chunk_id, embedding |-> embedding,
     source |-> [file_path |-> file_path, section_type |-> section_type,
                 chunk_index |-> chunk_index]]

\* chunk lists handed to upsert_chunks: n chunks of one section, all with a
\* vector but the one at hole, whose embedding is None or the empty list
UpsertSizes == {0, 1, batch_size, batch_size + 1, 2 * batch_size + 1}

chunk_list(n, hole, hole_embedding) ==
    [i \in 1..n |->
        DocumentChunk("chapter-01_concepts_" \o decimal(i - 1),
                      IF i = hole THEN hole_embedding ELSE Vector(dimension_ada_002),
                      <<"module-01", "chapter-01.md">>, "concepts", i - 1)]

UpsertLists ==
    {chunk_list(n, 0, NoEmbedding) : n \in UpsertSizes}
    \cup UNION {{chunk_list(n, hole, e) :
                    hole \in {1, n}, e \in {NoEmbedding, Vector(0)}} :
                 n \in UpsertSizes \ {0}}

\* a process starts: the first one finds the index in any initial state
process_start(program_input) ==
    /\ g_pc = "idle"
    /\ g_runs = 0
    /\ g_in' = program_input
    /\ index' \in InitialIndexes
    /\ g_runs' = 1
    /\ requests' = <<>>
    /\ g_i' = 0
    /\ g_file' = 0
    /\ point_id' = 0
    /\ g_points' = <<>>

\* upsert_chunks(chunks, show_progress) called on its own
upsert_chunks_call ==
    /\ \E chunk_list_in \in UpsertLists, show_progress \in BOOLEAN, seed \in HashSeeds :
         /\ process_start([program |-> "upsert_chunks", seed |-> seed,
                           show_progress |-> show_progress])
         /\ g_chunks' = chunk_list_in
    /\ g_pc' = "upsert_chunks"
    /\ g_out' = NoReport
    /\ UNCHANGED <<pipeVars, filterVars, chunkVars, unitVars, pairVars>>

\* the first loop of an upsert_chunks that leaves out a chunk without
\* embedding
build_points_skip_missing ==
    /\ g_pc = "upsert_chunks"
    /\ LET kept == SelectSeq(g_chunks, LAMBDA c : ~c.embedding.is_none)
           points == [k \in 1..Len(kept) |->
                         PointStruct(point_id_of(g_in.seed, kept[k].chunk_id),
                                     kept[k].embedding, kept[k].source)]
       IN  /\ g_points' = points
           /\ g_pc' = IF points = <<>> THEN "returned" ELSE "upsert"
           /\ g_out' = IF points = <<>> THEN [g_out EXCEPT !.kind = "returned"] ELSE g_out
    /\ g_i' = 0
    /\ UNCHANGED <<g_in, g_chunks, g_file, point_id, index, requests, g_runs,
                   pipeVars, filterVars, chunkVars, unitVars, pairVars>>

\* upsert_chunks, the first loop: a chunk whose embedding is None raises
\* ValueError, else every chunk becomes a point
build_points ==
    /\ g_pc = "upsert_chunks"
    /\ LET missing == {k \in 1..Len(g_chunks) : g_chunks[k].embedding.is_none}
           points == [k \in 1..Len(g_chunks) |->
                         PointStruct(point_id_of(g_in.seed, g_chunks[k].chunk_id),
                                     g_chunks[k].embedding, g_chunks[k].source)]
       IN  IF missing # {}
           THEN /\ g_out' = [g_out EXCEPT !.kind = "raised",
                                          !.exc = "ValueError: no embedding"]
                /\ g_pc' = "raised"
                /\ g_points' = <<>>
           ELSE /\ g_points' = points
                /\ g_pc' = IF points = <<>> THEN "returned" ELSE "upsert"
                /\ g_out' = IF points = <<>>
                            THEN [g_out EXCEPT !.kind = "returned"] ELSE g_out
    /\ g_i' = 0
    /\ UNCHANGED <<g_in, g_chunks, g_file, point_id, index, requests, g_runs,
                   pipeVars, filterVars, chunkVars, unitVars, pairVars>>

\* upsert_chunks, one iteration of the batch loop: client.upsert stores the
\* batch, or raises and ends upsert_chunks with its exception
upsert_batch ==
    /\ g_pc = "upsert"
    /\ LET batch == SubSeq(g_points, g_i + 1, Min(g_i + batch_size, Len(g_points)))
           done == Min(g_i + batch_size, Len(g_points))
       IN  \E ok \in {b \in BOOLEAN : b => accepts(index, batch)} :
               /\ requests' = Append(requests, request_of(index, batch, ok))
               /\ IF ok
                  THEN /\ index' = upserted(index, batch)
                       /\ g_i' = g_i + batch_size
                       /\ g_pc' = IF g_i + batch_size < Len(g_points)
                                  THEN "upsert" ELSE "returned"
                       /\ g_out' = [g_out EXCEPT
                             !.kind = IF g_i + batch_size < Len(g_points)
                                      THEN @ ELSE "returned",
                             !.printed = IF g_in.show_progress
                                         THEN Append(@, done) ELSE @]
                  ELSE /\ index' = index
                       /\ g_i' = g_i
                       /\ g_pc' = "raised"
                       /\ g_out' = [g_out EXCEPT !.kind = "raised",
                                                 !.exc = "client.upsert failed"]
    /\ UNCHANGED <<g_in, g_chunks, g_points, g_file, point_id, g_runs,
                   pipeVars, filterVars, chunkVars, unitVars, pairVars>>

(* scripts/ingest_content.py: main; ingestion/markdown_parser.py           *)

\* Path.stem: the last part of the path without its last suffix
stem(file_path) ==
    LET name == file_path[Len(file_path)]
        dots == {i \in 2..Len(name) : SubSeq(name, i, i) = "."}
        last_dot == CHOOSE i \in dots : \A j \in dots : j <= i
    IN  IF dots = {} THEN name ELSE SubSeq(name, 1, last_dot - 1)

\* MarkdownDocument._extract_chapter_id
extract_chapter_id(file_path) == stem(file_path)

\* the Markdown files under the docs path: the path of each relative to the
\* docs path and, for each section get_sections() finds, the number of
\* chunks the chunker makes of it (no section: the whole content is the
\* section "general")
DocFiles ==
    <<[file_path |-> <<"module-01", "chapter-01.md">>,
       sections |-> <<[section_type |-> "concepts", chunks |-> 2]>>],
      [file_path |-> <<"module-01", "chapter-02.md">>,
       sections |-> <<>>],
      [file_path |-> <<"module-02", "chapter-01.md">>,
       sections |-> <<[section_type |-> "concepts", chunks |-> 1],
                      [section_type |-> "exercises", chunks |-> 1]>>]>>

\* parse_all_documents(): the documents found, in the order of DocFiles
DocumentLists ==
    {SelectSeq(DocFiles, LAMBDA d : d \in picked) :
        picked \in SUBSET {DocFiles[k] : k \in 1..Len(DocFiles)}}

\* if not sections: sections = {"general": doc.content}
sections_of(doc) ==
    IF doc.sections = <<>>
    THEN <<[section_type |-> "general", chunks |-> 1]>>
    ELSE doc.sections

\* chunk_id=f"{doc.chapter_id}_{section_type}_{chunk_idx}"
chunk_id_of(doc, section_type, chunk_idx) ==
    extract_chapter_id(doc.file_path) \o "_" \o section_type \o "_" \o decimal(chunk_idx)

\* the chunks of sections k.. of a document, embedding=None
RECURSIVE section_chunks(_, _)
section_chunks(doc, k) ==
    IF k > Len(sections_of(doc)) THEN <<>>
    ELSE LET sec == sections_of(doc)[k]
         IN  [idx \in 1..sec.chunks |->
                 DocumentChunk(chunk_id_of(doc, sec.section_type, idx - 1),
                               NoEmbedding, doc.file_path, sec.section_type, idx - 1)]
             \o section_chunks(doc, k + 1)

\* Step 2: all_chunks of documents k..
RECURSIVE all_chunks(_, _)
all_chunks(documents, k) ==
    IF k > Len(documents) THEN <<>>
    ELSE section_chunks(documents[k], 1) \o all_chunks(documents, k + 1)

\* EmbeddingGenerator(api_key=openai_api_key): the default model
ingest_content_model == "text-embedding-ada-002"

\* main of ingest_content up to Step 2; no document: sys.exit(0)
ingest_content_call ==
    /\ \E documents \in DocumentLists, recreate \in BOOLEAN, seed \in HashSeeds :
         /\ process_start([program |-> "ingest_content", seed |-> seed,
                           show_progress |-> TRUE, recreate |-> recreate,
                           documents |-> documents])
         /\ g_chunks' = all_chunks(documents, 1)
         /\ g_pc' = IF documents = <<>> THEN "returned" ELSE "embed"
         /\ g_out' = IF documents = <<>>
                     THEN [NoReport EXCEPT !.kind = "returned"] ELSE NoReport
    /\ UNCHANGED <<pipeVars, filterVars, chunkVars, unitVars, pairVars>>

\* Step 3: generate_embeddings_sync and the zip that assigns the embeddings;
\* a failed embeddings.create ends the process with its exception
generate_embeddings ==
    /\ g_pc = "embed"
    /\ \E ok \in BOOLEAN :
         IF ok
         THEN /\ g_chunks' = [k \in 1..Len(g_chunks) |->
                                 [g_chunks[k] EXCEPT !.embedding =
                                     Vector(get_embedding_dimension(ingest_content_model))]]
              /\ g_pc' = "collection"
              /\ g_out' = g_out
         ELSE /\ g_chunks' = g_chunks
              /\ g_pc' = "raised"
              /\ g_out' = [g_out EXCEPT !.kind = "raised",
                                        !.exc = "embeddings.create failed"]
    /\ UNCHANGED <<g_in, g_points, g_i, g_file, point_id, index, requests, g_runs,
                   pipeVars, filterVars, chunkVars, unitVars, pairVars>>

\* what the remote calls of the collection step may do
CollectionFaults == {"none", "listing fails", "delete fails", "create fails"}

\* the answer of the listing call for the index
listing_of(ix, fault) ==
    IF fault = "listing fails" THEN "raises: timed out"
    ELSE IF ix.exists THEN "collection listed"
    ELSE "collection not listed"

\* VectorStore.create_collection(vector_size, recreate): the index after
\* it, and whether client.create_collection raised
create_collection(ix, vector_size, recreate, fault) ==
    LET after_delete == IF recreate /\ fault # "delete fails" THEN NoCollection ELSE ix
        created == ~after_delete.exists /\ fault # "create fails"
    IN  [index |-> IF created THEN Collection(vector_size) ELSE after_delete,
         raised |-> ~created]

\* Step 4 up to upsert_chunks:
\* if args.recreate or not collection_exists(): create_collection(...)
collection_step ==
    /\ g_pc = "collection"
    /\ \E fault \in CollectionFaults :
         LET exists == collection_exists(listing_of(index, fault))
             made == create_collection(index,
                                       get_embedding_dimension(ingest_content_model),
                                       g_in.recreate, fault)
         IN  IF g_in.recreate \/ exists = "False"
             THEN /\ index' = made.index
                  /\ g_pc' = IF made.raised THEN "raised" ELSE "upsert_chunks"
                  /\ g_out' = IF made.raised
                              THEN [g_out EXCEPT !.kind = "raised",
                                                 !.exc = "create_collection failed"]
                              ELSE g_out
             ELSE /\ index' = index
                  /\ g_pc' = "upsert_chunks"
                  /\ g_out' = g_out
    /\ UNCHANGED <<g_in, g_chunks, g_points, g_i, g_file, point_id, requests, g_runs,
                   pipeVars, filterVars, chunkVars, unitVars, pairVars>>

\* the same command is run again as a new process, on the index the
\* earlier run left
reingest ==
    /\ g_pc \in {"returned", "raised"}
    /\ g_in.program \in {"upsert_chunks", "ingest_content"}
    /\ g_runs < MaxRuns
    /\ \E seed \in HashSeeds : g_in' = [g_in EXCEPT !.seed = seed]
    /\ g_runs' = g_runs + 1
    /\ IF g_in.program = "upsert_chunks"
       THEN /\ g_chunks' = g_chunks
            /\ g_pc' = "upsert_chunks"
            /\ g_out' = NoReport
       ELSE /\ g_chunks' = all_chunks(g_in.documents, 1)
            /\ g_pc' = IF g_in.documents = <<>> THEN "returned" ELSE "embed"
            /\ g_out' = IF g_in.documents = <<>>
                        THEN [NoReport EXCEPT !.kind = "returned"] ELSE NoReport
    /\ requests' = <<>>
    /\ g_points' = <<>>
    /\ g_i' = 0
    /\ UNCHANGED <<g_file, point_id, index,
                   pipeVars, filterVars, chunkVars, unitVars, pairVars>>

(* scripts/simple_ingest.py                                                *)

MaxFiles == 2
MaxFileChunks == 2

\* a file is the sequence of its chunks, each TRUE if embeddings.create
\* answers for it and FALSE if it raises
FileChunks == UNION {[1..n -> BOOLEAN] : n \in 0..MaxFileChunks}
FileLists == UNION {[1..n -> FileChunks] : n \in 0..MaxFiles}

\* settings.openai_embedding_model
EmbeddingModels == {"text-embedding-ada-002", "text-embedding-3-large"}

\* size=1536 of the collection simple_ingest creates
simple_ingest_size == 1536

\* point_id = 1
first_point_id == 1

\* main of simple_ingest: the clients are initialised
simple_ingest_call ==
    /\ \E files \in FileLists, model \in EmbeddingModels :
         process_start([program |-> "simple_ingest", seed |-> 0,
                        show_progress |-> TRUE, files |-> files, model |-> model])
    /\ g_chunks' = <<>>
    /\ g_out' = NoReport
    /\ g_pc' = "setup_collection"
    /\ UNCHANGED <<pipeVars, filterVars, chunkVars, unitVars, pairVars>>

\* 2. the collection is deleted (a failure is ignored) and created with
\* size 1536; if that fails main prints the error and returns; with no
\* Markdown file main returns after the scan
setup_collection ==
    /\ g_pc = "setup_collection"
    /\ \E fault \in CollectionFaults \ {"listing fails"} :
         LET made == create_collection(index, simple_ingest_size, TRUE, fault)
         IN  /\ index' = made.index
             /\ IF made.raised
                THEN /\ g_pc' = "returned"
                     /\ g_out' = [g_out EXCEPT !.kind = "returned",
                            !.printed = Append(@, "[ERROR] Collection setup failed")]
                ELSE IF g_in.files = <<>>
                THEN /\ g_pc' = "returned"
                     /\ g_out' = [g_out EXCEPT !.kind = "returned",
                            !.printed = Append(@, "[WARNING] No chapter files found!")]
                ELSE /\ g_pc' = "process_files"
                     /\ g_out' = g_out
    /\ point_id' = first_point_id
    /\ UNCHANGED <<g_in, g_chunks, g_points, g_i, g_file, requests, g_runs,
                   pipeVars, filterVars, chunkVars, unitVars, pairVars>>

\* process_file(file_path, openai_client, point_id): chunk i (from 0) gets
\* id=point_id + i; a chunk whose embedding fails is printed and left out
process_file(file_no, chunk_outcomes, first_id, model) ==
    LET made == SelectSeq([i \in 1..Len(chunk_outcomes) |-> i],
                          LAMBDA i : chunk_outcomes[i])
    IN  [k \in 1..Len(made) |->
            PointStruct(first_id + (made[k] - 1),
                        Vector(get_embedding_dimension(model)),
                        [file_path |-> <<"module-01", "chapter-0" \o decimal(file_no) \o ".md">>,
                         section_type |-> "general", chunk_index |-> made[k] - 1])]

\* one iteration of: for md_file in md_files: points = process_file(...);
\* all_points.extend(points); point_id += len(points)
process_next_file ==
    /\ g_pc = "process_files"
    /\ LET points == process_file(g_file + 1, g_in.files[g_file + 1], point_id,
                                  g_in.model)
           all_points == g_points \o points
       IN  /\ g_points' = all_points
           /\ point_id' = point_id + Len(points)
           /\ g_file' = g_file + 1
           /\ IF g_file + 1 < Len(g_in.files)
              THEN g_pc' = "process_files" /\ g_out' = g_out
              ELSE IF all_points = <<>>
              THEN /\ g_pc' = "returned"
                   /\ g_out' = [g_out EXCEPT !.kind = "returned",
                          !.printed = Append(@, "[ERROR] No vectors to upload")]
              ELSE g_pc' = "upload" /\ g_out' = g_out
    /\ UNCHANGED <<g_in, g_chunks, g_i, index, requests, g_runs,
                   pipeVars, filterVars, chunkVars, unitVars, pairVars>>

\* 5. one iteration of the upload loop: a failed batch is printed and the
\* loop goes on; after the last batch "[OK] Upload complete" is printed
upload_batch ==
    /\ g_pc = "upload"
    /\ LET batch == SubSeq(g_points, g_i + 1, Min(g_i + batch_size, Len(g_points)))
           batch_num == (g_i \div batch_size) + 1
           last == g_i + batch_size >= Len(g_points)
           line(ok) == IF ok THEN "Batch " \o decimal(batch_num) \o " uploaded"
                       ELSE "[ERROR] Batch " \o decimal(batch_num) \o " failed"
       IN  \E ok \in {b \in BOOLEAN : b => accepts(index, batch)} :
               /\ requests' = Append(requests, request_of(index, batch, ok))
               /\ index' = IF ok THEN upserted(index, batch) ELSE index
               /\ g_i' = g_i + batch_size
               /\ g_pc' = IF last THEN "returned" ELSE "upload"
               /\ g_out' = [g_out EXCEPT
                     !.kind = IF last THEN "returned" ELSE @,
                     !.printed = IF last
                                 THEN Append(Append(@, line(ok)), "[OK] Upload complete")
                                 ELSE Append(@, line(ok))]
    /\ UNCHANGED <<g_in, g_chunks, g_points, g_file, point_id, g_runs,
                   pipeVars, filterVars, chunkVars, unitVars, pairVars>>

-----------------------------------------------------------------------------
(* Two concurrent process_query calls on the singleton RAGService          *)

\* the attributes the singleton and its parts are given in __init__
ServiceFields ==
    [similarity_threshold |-> similarity_threshold,
     collection_name |-> "textbook_chapters",
     embedder_model |-> "text-embedding-ada-002"]

\* the local variables of a call of process_query, and the answers the
\* remote services give to this call
IdleCall ==
    [pc |-> "idle", request |-> NoRequest, found |-> <<>>,
     response |-> NoGenerated.response, initial_chunks |-> <<>>,
     retrieved_chunks |-> <<>>, context |-> NoContext, generated |-> NoGenerated,
     answer |-> NoAnswer, overlapped |-> FALSE]

CallIds == 1..2

PairIdle ==
    /\ q_calls = [i \in CallIds |-> IdleCall]
    /\ service = ServiceFields

\* the requests of the two calls
PairRequests ==
    {QueryRequest(args) :
        args \in {a \in [query_text : {Text(<<Run("what", 1), Run("is", 1),
                                              Run("ros", 1)>>, 0)},
                         query_mode : QueryModes,
                         selected_text : {NoneText, SelKey},
                         max_results : {1}] : QueryRequestValid(a)}}

\* the searches answered with as many points as asked for, all of score 80
PairFound(req) ==
    LET limit == IF selected_branch(req) THEN fetch_size(req) ELSE req.max_results
    IN  {f \in SearchResults(limit, 80) :
            Len(f) = limit /\ \A k \in 1..Len(f) : f[k].score = 80}

\* an assignment that binds a name of the singleton instead of a local
\* variable: every call sees the value
store_on_service(locals, i, name, value) ==
    [k \in DOMAIN locals |-> [locals[k] EXCEPT ![name] = value]]

\* an assignment to a local variable of call i
store(locals, i, name, value) == [locals EXCEPT ![i][name] = value]

\* process_query(request) is entered by call i
q_call(i) ==
    /\ q_calls[i].pc = "idle"
    /\ \E req \in PairRequests, response \in Responses :
         \E found \in PairFound(req) :
             q_calls' = [q_calls EXCEPT ![i] =
                            [IdleCall EXCEPT !.pc = "retrieve", !.request = req,
                                             !.found = found, !.response = response]]
    /\ UNCHANGED <<service, pipeVars, filterVars, chunkVars, unitVars, ingestVars>>

\* the other call is between its entry and its return
other_running(i) ==
    \E k \in CallIds \ {i} : q_calls[k].pc \notin {"idle", "done", "failed"}

\* call i moved to position next
moved(locals, i, next) ==
    [locals EXCEPT ![i].pc = next,
                  ![i].overlapped = q_calls[i].overlapped \/ other_running(i)]

\* the next statement of process_query in call i
q_step(i) ==
    /\ LET c == q_calls[i]
           sel == selected_branch(c.request)
       IN  CASE c.pc = "retrieve" /\ sel ->
                  q_calls' = moved(store(q_calls, i, "initial_chunks",
                                         prefilter(c.found, c.request.selected_text,
                                                   fetch_size(c.request))),
                                   i, "filter")
             [] c.pc = "retrieve" /\ ~sel ->
                  q_calls' = moved(store(q_calls, i, "retrieved_chunks", c.found),
                                   i, "context")
             [] c.pc = "filter" ->
                  q_calls' = moved(store(q_calls, i, "retrieved_chunks",
                                         filter_chunks_by_selection(
                                             c.initial_chunks, c.request.selected_text,
                                             c.request.max_results)),
                                   i, "context")
             [] c.pc = "context" ->
                  q_calls' = moved(store(q_calls, i, "context",
                                         IF sel
                                         THEN enhance_context_with_selection(
                                                  format_context_for_llm(c.retrieved_chunks),
                                                  c.request.selected_text)
                                         ELSE plain_context(
                                                  format_context_for_llm(c.retrieved_chunks))),
                                   i, "generate")
             [] c.pc = "generate" ->
                  q_calls' = moved(store(q_calls, i, "generated",
                                         [prompt |-> IF sel THEN "selected-text"
                                                     ELSE "full-book",
                                          response |-> c.response,
                                          confidence |-> estimate_confidence(c.response,
                                                                             c.context)]),
                                   i, "citations")
             [] c.pc = "citations" /\ citations_valid(c.retrieved_chunks) ->
                  q_calls' = moved(store(q_calls, i, "answer",
                                         QueryResponse(c.generated, c.retrieved_chunks)),
                                   i, "done")
             [] c.pc = "citations" /\ ~citations_valid(c.retrieved_chunks) ->
                  q_calls' = moved(q_calls, i, "failed")
             [] OTHER -> FALSE
    /\ UNCHANGED <<service, pipeVars, filterVars, chunkVars, unitVars, ingestVars>>

\* the QueryResponse of process_query for a request, the points the search
\* returns and the text the completion returns, when nothing else runs
process_query_alone(req, found, response) ==
    LET sel == selected_branch(req)
        retrieved == IF sel
                     THEN filter_chunks_by_selection(
                              prefilter(found, req.selected_text, fetch_size(req)),
                              req.selected_text, req.max_results)
                     ELSE found
        ctx == IF sel
               THEN enhance_context_with_selection(format_context_for_llm(retrieved),
                                                   req.selected_text)
               ELSE plain_context(format_context_for_llm(retrieved))
        gen == [prompt |-> IF sel THEN "selected-text" ELSE "full-book",
                response |-> response,
                confidence |-> estimate_confidence(response, ctx)]
    IN  QueryResponse(gen, retrieved)

-----------------------------------------------------------------------------
(* Specifications                                                          *)

Init == PipeInit /\ FilterIdle /\ ChunkIdle /\ UnitIdle /\ IngestIdle /\ PairIdle

Next ==
    \/ construct_request
    \/ route_guard
    \/ enter_process_query
    \/ generate_embedding
    \/ vector_search
    \/ selection_filter
    \/ assemble_context
    \/ generate_response
    \/ build_response

\* one query through its caller and process_query
Spec == Init /\ [][Next]_vars

NextFilter == filter_call \/ filter_return

\* filter_chunks_by_selection applied to ranked candidate lists
SpecFilter == Init /\ [][NextFilter]_vars

NextChunk == chunk_text_call \/ chunk_text_step

\* chunk_text applied to texts and chunker configurations
SpecChunk == Init /\ [][NextChunk]_vars

NextIngest ==
    \/ upsert_chunks_call
    \/ ingest_content_call
    \/ generate_embeddings
    \/ collection_step
    \/ build_points
    \/ upsert_batch
    \/ reingest

\* upsert_chunks on its own and inside ingest_content, run and run again
SpecIngest == Init /\ [][NextIngest]_vars

NextSimple ==
    \/ simple_ingest_call
    \/ setup_collection
    \/ process_next_file
    \/ upload_batch

\* one run of simple_ingest
SpecSimple == Init /\ [][NextSimple]_vars

NextPair == (\E i \in CallIds : q_call(i)) \/ (\E i \in CallIds : q_step(i))

\* two calls of process_query on the singleton, statement by statement
SpecPair == Init /\ [][NextPair]_vars

NextUnits ==
    \/ overlap_call
    \/ get_embedding_dimension_call
    \/ estimate_confidence_call
    \/ health_check_call
    \/ check_vector_store
    \/ check_embedder
    \/ check_response_generator

\* the functions that are checked on their own, each called once
SpecUnits == Init /\ [][NextUnits]_vars

-----------------------------------------------------------------------------
(* Properties                                                              *)

\* the search results that share more than 3 words with the selection
shares_more_than_3(result) == shared_words(result, request.selected_text) > 3

\* ... and whose Jaccard overlap with the selection's keywords is >= 0.3
qualifies_twice(result) ==
    /\ shares_more_than_3(result)
    /\ LET o == calculate_overlap_score(
                    Get(result.payload, "chunk_text", EmptyText),
                    extract_keywords(request.selected_text))
       IN  10 * o.num >= 3 * o.den

\* how many search results share more than 3 words with the selection
n_sharing == Cardinality({i \in 1..Len(results) : shares_more_than_3(results[i])})

\* how many of them reach the overlap threshold as well
n_qualifying == Cardinality({i \in 1..Len(results) : qualifies_twice(results[i])})

answered_selected == pc = "done" /\ request.query_mode = "selected-text"

\* C1: in selected-text mode, when the vector search returned at least one
\* candidate, the Answer has retrieved_chunks >= 1.
C1_NonEmptyWhenCandidates ==
    (answered_selected /\ results # <<>>) => answer.retrieved_chunks >= 1

\* the overlap score of candidate i of the call to filter_chunks_by_selection
f_overlap(i) ==
    calculate_overlap_score(Get(f_in.chunk_list[i].payload, "chunk_text", EmptyText),
                            extract_keywords(f_in.selected_text))

\* the combined score 0.6 * vector + 0.4 * overlap of candidate i, with the
\* vector score in hundredths: (3 * score / 500) + (2 * overlap / 5)
f_combined(i) ==
    Frac(3 * f_overlap(i).den * f_in.chunk_list[i].score + 200 * f_overlap(i).num,
         500 * f_overlap(i).den)

f_index(id) == CHOOSE i \in 1..Len(f_in.chunk_list) : f_in.chunk_list[i].id = id

\* f_out holds k distinct candidates, in non-increasing order of combined
\* score, and no candidate left out scores higher than one that is in
f_out_is_top(k) ==
    /\ Len(f_out) = k
    /\ \A j \in 1..Len(f_out) :
         \E i \in 1..Len(f_in.chunk_list) : f_in.chunk_list[i].id = f_out[j].id
    /\ \A j1, j2 \in 1..Len(f_out) : j1 # j2 => f_out[j1].id # f_out[j2].id
    /\ \A j \in 1..(Len(f_out) - 1) :
         FracLeq(f_combined(f_index(f_out[j + 1].id)), f_combined(f_index(f_out[j].id)))
    /\ \A i \in 1..Len(f_in.chunk_list) :
         (\A j \in 1..Len(f_out) : f_out[j].id # f_in.chunk_list[i].id) =>
             \A j \in 1..Len(f_out) :
                 FracLeq(f_combined(i), f_combined(f_index(f_out[j].id)))

\* C2: for a non-empty candidate list and max_results >= 1,
\* filter_chunks_by_selection returns a non-empty list; when no candidate
\* reaches the overlap threshold 0.3 it returns the first
\* min(max_results, n) candidates of the list sorted by combined score.
C2_FilterNeverEmpty ==
    (f_pc = "returned" /\ f_in.chunk_list # <<>> /\ f_in.max_results >= 1) =>
        /\ f_out # <<>>
        /\ (\A i \in 1..Len(f_in.chunk_list) : 10 * f_overlap(i).num < 3 * f_overlap(i).den)
               => f_out_is_top(Min(f_in.max_results, Len(f_in.chunk_list)))

\* C2 witness: no candidate reached the threshold, and the fallback returned
\* the candidate that the combined score moved from second to first place
C2_Witness ==
    /\ f_pc = "returned"
    /\ Truthy(f_in.selected_text)
    /\ Len(f_in.chunk_list) = 2
    /\ f_in.max_results = 1
    /\ \A i \in 1..Len(f_in.chunk_list) : 10 * f_overlap(i).num < 3 * f_overlap(i).den
    /\ Len(f_out) = 1
    /\ f_out[1].id = f_in.chunk_list[2].id

\* C3 as claimed: in selected-text mode the final result count is at most
\* max_results and at least the number of candidates that share more than
\* 3 words with the selection, whenever that number is at most max_results.
C3_AtLeastLexicallyQualifying ==
    (answered_selected /\ Truthy(request.selected_text)) =>
        /\ answer.retrieved_chunks <= request.max_results
        /\ n_sharing <= request.max_results
               => answer.retrieved_chunks >= n_sharing

\* C3 amended: in selected-text mode the final result count is at most
\* max_results, at least the number of candidates that share more than 3
\* words with the selection and reach the overlap threshold 0.3 (whenever
\* that number is at most max_results), and at least 1 whenever some
\* candidate shares more than 3 words with the selection.
C3_CountBounds ==
    (answered_selected /\ Truthy(request.selected_text)) =>
        /\ answer.retrieved_chunks <= request.max_results
        /\ n_qualifying <= request.max_results
               => answer.retrieved_chunks >= n_qualifying
        /\ n_sharing >= 1 => answer.retrieved_chunks >= 1

\* C3 witness: two candidates share more than 3 words, one of them reaches
\* the threshold, and one result is returned
C3_Witness ==
    /\ answered_selected
    /\ Truthy(request.selected_text)
    /\ n_sharing = 2
    /\ n_qualifying = 1
    /\ request.max_results = 2
    /\ answer.retrieved_chunks = 1

missing_selection(args) ==
    args.query_mode = "selected-text" /\ ~Truthy(args.selected_text)

\* C4: a query in selected-text mode whose selected passage is missing
\* (left out, None or empty) never yields an Answer.
C4_MissingSelectionNotAnswered ==
    (pc # "idle" /\ missing_selection(raw)) =>
        /\ ~answer.present
        /\ outcome.kind \notin {"returned", "tool_success"}
        /\ ~(outcome.kind = "http" /\ outcome.status = 200)

has_selection_outside_word_range(args) ==
    /\ args.selected_text.kind = "text"
    /\ \/ WordCount(args.selected_text) < 20
       \/ WordCount(args.selected_text) > 2000

\* C5: a query whose selected passage has fewer than 20 or more than 2000
\* words is refused with a validation error, and no embedding, search or
\* completion call is made for it.
C5_OutOfRangeRejectedBeforeRemoteCalls ==
    (pc # "idle" /\ has_selection_outside_word_range(raw)) =>
        /\ pc = "rejected"
        /\ outcome = on_validation_error(via)
        /\ calls.embed = 0 /\ calls.search = 0 /\ calls.complete = 0
        /\ ~answer.present

\* C5 witness: a passage of 10 words and 59 characters was refused
C5_Witness ==
    /\ pc = "rejected"
    /\ raw.selected_text.kind = "text"
    /\ WordCount(raw.selected_text) = 10
    /\ CharLen(raw.selected_text) >= 20
    /\ query_text_ok(raw.query_text)
    /\ max_results_ok(raw.max_results)

\* C6: a selected-text query whose passage has 20 to 2000 words, with a
\* valid query text and max_results in 1..20, passes validation.
C6_WordRangeAccepted ==
    ( /\ pc # "idle"
      /\ raw.query_mode = "selected-text"
      /\ raw.selected_text.kind = "text"
      /\ WordCount(raw.selected_text) >= 20
      /\ WordCount(raw.selected_text) <= 2000
      /\ 1 <= CharLen(raw.query_text) /\ CharLen(raw.query_text) <= 2000
      /\ 1 <= raw.max_results /\ raw.max_results <= 20 ) => pc # "rejected"

\* C7: the route answers a selected-text request without selected_text
\* with status 400, and answers 500 only when a step of the pipeline failed.
C7_MissingSelectionIs400 ==
    (via = "route" /\ outcome.kind = "http") =>
        /\ (raw.query_mode = "selected-text" /\ raw.selected_text.kind = "omitted"
            /\ query_text_ok(raw.query_text) /\ max_results_ok(raw.max_results))
               => outcome.status = 400
        /\ outcome.status = 500 => faults # {}

\* C8: when process_query completes, the number of citations equals
\* retrieved_chunks equals the size of the final result list, and citation
\* i carries the payload fields of final result i (a missing field replaced
\* by its default) and that result's vector similarity score.
C8_CitationsProjectFinalResults ==
    pc = "done" =>
        /\ answer.present
        /\ Len(answer.source_citations) = answer.retrieved_chunks
        /\ answer.retrieved_chunks = Len(retrieved_chunks)
        /\ \A i \in 1..Len(retrieved_chunks) :
             LET payload == retrieved_chunks[i].payload
                 citation == answer.source_citations[i]
                 has(key) == key \in DOMAIN payload
             IN  /\ citation.chapter_id =
                        IF has("chapter_id") THEN payload.chapter_id ELSE "unknown"
                 /\ citation.chapter_title =
                        IF has("chapter_title") THEN payload.chapter_title
                        ELSE "Unknown Chapter"
                 /\ citation.module_id =
                        IF has("module_id") THEN payload.module_id ELSE "unknown-module"
                 /\ citation.section_type =
                        IF has("section_type") THEN payload.section_type ELSE "general"
                 /\ citation.file_path =
                        IF has("file_path") THEN payload.file_path ELSE ""
                 /\ citation.chunk_text =
                        IF has("chunk_text") THEN payload.chunk_text ELSE EmptyText
                 /\ citation.relevance_score = retrieved_chunks[i].score

\* C8 witness: a selected-text query completed with two citations, fewer
\* than the search returned, in the order of the re-ranked list (which is
\* not the order of the search), one of them for a result without module_id
C8_Witness ==
    /\ pc = "done"
    /\ selected_branch(request)
    /\ Len(results) > 2
    /\ Len(answer.source_citations) = 2
    /\ retrieved_chunks[1].id # results[1].id
    /\ "module_id" \notin DOMAIN retrieved_chunks[2].payload
    /\ answer.source_citations[2].module_id = "unknown-module"

AllSteps(req) ==
    IF selected_branch(req)
    THEN <<"Retrieving", "SelectedTextFiltering", "ContextAssembled", "Generating",
           "CitationsExtracted", "Done">>
    ELSE <<"Retrieving", "ContextAssembled", "Generating", "CitationsExtracted",
           "Done">>

\* C9: if the embedding call, the vector search, the completion call or the
\* construction of a citation fails, no Answer is returned and the caller
\* gets the failure; an Answer is returned only after every step has
\* completed.
C9_NoPartialAnswer ==
    /\ answer.present =>
         /\ pc = "done"
         /\ faults = {}
         /\ trace = AllSteps(request)
         /\ calls.search = 1 /\ calls.complete = 1
         /\ calls.embed = IF selected_branch(request) THEN 2 ELSE 1
         /\ \A i \in 1..Len(retrieved_chunks) :
              /\ retrieved_chunks[i].score >= 0
              /\ retrieved_chunks[i].score <= 100
         /\ outcome.kind \in {"http", "tool_success", "returned"}
         /\ outcome.kind = "http" => outcome.status = 200
    /\ (faults # {} \/ pc = "failed") =>
         /\ ~answer.present
         /\ pc = "failed"
         /\ Cardinality(faults) = 1
         /\ outcome.kind \in {"http", "tool_error", "raised"}
         /\ outcome.kind = "http" => outcome.status \in {400, 500}
    /\ (pc = "citations" /\ \E i \in 1..Len(retrieved_chunks) :
                                retrieved_chunks[i].score > 100) =>
         ~ENABLED (build_response /\ answer'.present)

\* C9 witness: retrieval, context assembly and generation completed, the
\* construction of a citation failed, and the caller got no Answer
C9_Witness ==
    /\ pc = "failed"
    /\ faults = {"citation"}
    /\ trace = <<"Retrieving", "SelectedTextFiltering", "ContextAssembled", "Generating">>
    /\ ~answer.present
    /\ via = "direct"
    /\ outcome.kind = "raised"

\* the words of the text that window [start, end) of chunk i covers
window(i) == {w \in 0..(Len(c_in.text) - 1) : chunks[i].start <= w /\ w < chunks[i].end}

sliding_case ==
    /\ Len(c_in.text) > c_in.chunk_size
    /\ ~c_in.respect_boundaries
    /\ 0 <= c_in.overlap_size
    /\ c_in.overlap_size < c_in.chunk_size

\* C10: for a text with more words than chunk_size, respect_boundaries off
\* and 0 <= overlap_size < chunk_size, chunk_text returns; consecutive
\* windows share exactly overlap_size words, the first window starts at
\* word 0, the last ends at the last word, every word lies in a window,
\* and each chunk is the words of its window.
C10_SlidingWindows ==
    (c_pc # "idle" /\ sliding_case) =>
        /\ c_pc = "loop" => Len(chunks) < MaxChunks
        /\ c_pc = "returned" =>
             /\ Len(chunks) >= 2
             /\ chunks[1].start = 0
             /\ chunks[Len(chunks)].end = Len(c_in.text)
             /\ \A i \in 1..(Len(chunks) - 1) :
                  Cardinality(window(i) \cap window(i + 1)) = c_in.overlap_size
             /\ \A w \in 0..(Len(c_in.text) - 1) : \E i \in 1..Len(chunks) : w \in window(i)
             /\ \A i \in 1..Len(chunks) :
                  /\ Len(chunks[i].text) = chunks[i].end - chunks[i].start
                  /\ \A j \in 1..Len(chunks[i].text) :
                       chunks[i].text[j].w = c_in.text[chunks[i].start + j].w

\* C10 witness: four words in windows of two with an overlap of one
C10_Witness ==
    /\ c_pc = "returned"
    /\ sliding_case
    /\ Len(c_in.text) = 4
    /\ c_in.chunk_size = 2
    /\ c_in.overlap_size = 1
    /\ Len(chunks) = 3

\* a is a prefix of b that holds at least one word
nonempty_prefix(a, b) ==
    /\ Len(a) >= 1
    /\ Len(a) <= Len(b)
    /\ \A j \in 1..Len(a) : a[j].w = b[j].w
    /\ \A j \in 1..(Len(a) - 1) : a[j].sep = b[j].sep

\* what chunk_text returns for the same text and sizes with
\* respect_boundaries off
chunks_untrimmed == chunk_text([c_in EXCEPT !.respect_boundaries = FALSE])

\* C11: with respect_boundaries on, chunk_text emits as many chunks as with
\* it off for the same text and sizes, chunk i is a non-empty prefix of
\* chunk i of the untrimmed run, and no chunk has more than chunk_size words.
C11_TrimmingOnlyShortens ==
    (c_pc = "returned" /\ c_in.respect_boundaries) =>
        /\ Len(chunks) = Len(chunks_untrimmed)
        /\ \A i \in 1..Len(chunks) :
             /\ nonempty_prefix(chunks[i].text, chunks_untrimmed[i].text)
             /\ Len(split(chunks[i].text)) <= c_in.chunk_size

\* C11 witness: a run with boundaries respected returned three chunks, the
\* first of them cut at a sentence end
C11_Witness ==
    /\ c_pc = "returned"
    /\ c_in.respect_boundaries
    /\ Len(chunks) = 3
    /\ Len(chunks[1].text) < Len(chunks_untrimmed[1].text)

\* the positions of the words of the text that emitted chunk i holds
emitted_words(i) ==
    {w \in 0..(Len(c_in.text) - 1) :
        chunks[i].start <= w /\ w < chunks[i].start + Len(chunks[i].text)}

\* C12: with respect_boundaries on, every word of the input appears in at
\* least one emitted chunk.
C12_TrimmingDiscardsNothing ==
    (c_pc = "returned" /\ c_in.respect_boundaries) =>
        \A w \in 0..(Len(c_in.text) - 1) : \E i \in 1..Len(chunks) : w \in emitted_words(i)

\* the place in the candidate list of the j-th returned item
f_from(j) == f_index(f_out[j].id)

f_below_threshold(i) == 10 * f_overlap(i).num < 3 * f_overlap(i).den

\* C13: the list returned by filter_chunks_by_selection is in non-increasing
\* order of combined score 0.6 * vector + 0.4 * overlap, items with equal
\* combined score keep the relative order of the candidate list, and an item
\* below the overlap threshold is returned only when no candidate reached it.
C13_RankedStableThresholded ==
    f_pc = "returned" =>
        /\ \A j, k \in 1..Len(f_out) :
             j < k =>
                /\ FracLeq(f_combined(f_from(k)), f_combined(f_from(j)))
                /\ FracLeq(f_combined(f_from(j)), f_combined(f_from(k)))
                       => f_from(j) < f_from(k)
        /\ (\E j \in 1..Len(f_out) : f_below_threshold(f_from(j)))
               => \A i \in 1..Len(f_in.chunk_list) : f_below_threshold(i)

\* C13 witness: a selection with words, three candidates of which the last
\* two tie in combined score below the first, all returned in the order of
\* the candidate list
C13_Witness ==
    /\ f_pc = "returned"
    /\ Truthy(f_in.selected_text)
    /\ Len(f_in.chunk_list) = 3
    /\ FracLess(f_combined(2), f_combined(1))
    /\ f_combined(2).num * f_combined(3).den = f_combined(3).num * f_combined(2).den
    /\ Len(f_out) = 3
    /\ f_from(2) = 2
    /\ f_from(3) = 3

\* retrieve_for_selected_text has been called and has returned
retrieved_for_selection ==
    /\ search_call.fn = "retrieve_for_selected_text"
    /\ pc \in {"filter", "context", "generate", "citations", "done"}

\* C15 as claimed: retrieve_for_selected_text called with max_results = m
\* searches with a limit of 2 * m and a score floor of 0.6, and returns at
\* most m results.
C15_SearchLimitTwiceArgument ==
    retrieved_for_selection =>
        /\ search_call.limit = 2 * search_call.max_results
        /\ search_call.score_threshold = 60
        /\ Len(initial_chunks) <= search_call.max_results

\* C15 amended: process_query calls retrieve_for_selected_text with
\* max_results = 2 * request.max_results; retrieve_for_selected_text called
\* with max_results = k searches with a limit of k and a score floor of 0.6,
\* and returns at most k results, all of them results of the search.
C15_OverfetchByCaller ==
    retrieved_for_selection =>
        /\ search_call.max_results = 2 * request.max_results
        /\ search_call.limit = search_call.max_results
        /\ search_call.score_threshold = 60
        /\ Len(results) <= search_call.limit
        /\ \A i \in 1..Len(results) : results[i].score >= 60
        /\ Len(initial_chunks) <= search_call.max_results
        /\ \A i \in 1..Len(initial_chunks) :
             \E j \in 1..Len(results) : results[j] = initial_chunks[i]

\* C15 witness: a request for one result, a search that returned two
\* candidates, both handed on by retrieve_for_selected_text
C15_Witness ==
    /\ retrieved_for_selection
    /\ request.max_results = 1
    /\ search_call.limit = 2
    /\ Len(results) = 2
    /\ Len(initial_chunks) = 2

\* the two token sets of a call of _calculate_overlap_score
tokens_a == LowerWords(u_in.a)
tokens_b == LowerWords(u_in.b)

\* C14: the overlap score is the Jaccard similarity of the two token sets:
\* symmetric in the two sets, within [0, 1], 0 for disjoint sets and when the
\* union is empty, 1 for identical non-empty sets.
C14_OverlapIsJaccard ==
    u_pc = "overlap" =>
        /\ u_out.ab.num * u_out.ba.den = u_out.ba.num * u_out.ab.den
        /\ u_out.ab.den > 0
        /\ 0 <= u_out.ab.num /\ u_out.ab.num <= u_out.ab.den
        /\ tokens_a \cap tokens_b = {} => u_out.ab.num = 0
        /\ (tokens_a = tokens_b /\ tokens_a # {}) => u_out.ab.num = u_out.ab.den
        /\ tokens_a \cup tokens_b # {} =>
               u_out.ab.num * Cardinality(tokens_a \cup tokens_b)
                   = Cardinality(tokens_a \cap tokens_b) * u_out.ab.den

\* C14 witness: two sets of two tokens that share one, scored 1/3
C14_Witness ==
    /\ u_pc = "overlap"
    /\ Cardinality(tokens_a) = 2
    /\ Cardinality(tokens_b) = 2
    /\ Cardinality(tokens_a \cap tokens_b) = 1
    /\ 3 * u_out.ab.num = u_out.ab.den

\* C16 as claimed: the dimension is decided by exact match on the model
\* name: 1536 for "text-embedding-ada-002" and "text-embedding-3-small",
\* 3072 for "text-embedding-3-large", 1536 for every other name.
C16_DimensionByExactName ==
    u_pc = "dimension" =>
        u_out = IF u_in.model = "text-embedding-3-large" THEN 3072 ELSE 1536

\* C16 amended: 3072 for every name that begins with
\* "text-embedding-3-large", 1536 for every other name (among them
\* "text-embedding-ada-002" and the names that begin with
\* "text-embedding-3-small").
C16_DimensionByPrefix ==
    u_pc = "dimension" =>
        /\ u_out \in {1536, 3072}
        /\ u_out = 3072 <=>
               /\ Len(u_in.model) >= 22
               /\ SubSeq(u_in.model, 1, 22) = "text-embedding-3-large"

\* C16 witness: a longer name that begins with "text-embedding-3-large"
C16_Witness ==
    /\ u_pc = "dimension"
    /\ u_in.model = "text-embedding-3-large-v2"
    /\ u_out = 3072

\* C17: _estimate_confidence returns 0.5, plus 0.2 when the response holds
\* "Source" or "According to", minus 0.3 when it holds an uncertainty phrase
\* in any case, plus 0.1 when the context is longer than 500 characters,
\* clamped to [0, 1] (in hundredths here).
C17_ConfidenceFormula ==
    u_pc = "confidence" =>
        LET cites == contains(u_in.response, "Source")
                     \/ contains(u_in.response, "According to")
            unsure == \E phrase \in uncertainty_phrases :
                         contains(lower_str(u_in.response), lower_str(phrase))
            long == context_len(u_in.context) > 500
            sum == 50 + (IF cites THEN 20 ELSE 0) - (IF unsure THEN 30 ELSE 0)
                      + (IF long THEN 10 ELSE 0)
        IN  /\ u_out = (IF sum < 0 THEN 0 ELSE IF sum > 100 THEN 100 ELSE sum)
            /\ 0 <= u_out /\ u_out <= 100

\* C17 witness: a response that cites a source and is unsure, with a context
\* of exactly 500 characters, is given 0.4
C17_Witness ==
    /\ u_pc = "confidence"
    /\ u_in.response = "Source 1 is unclear on this."
    /\ context_len(u_in.context) = 500
    /\ u_out = 40

health_check_positions ==
    {"check_vector_store", "check_embedder", "check_response_generator",
     "health_check_returned"}

\* C18: health_check never raises: whatever each probe does, it goes on to
\* the next probe and returns a status for all three components, and each
\* component's status is decided by the outcome of its own probe alone.
C18_HealthCheckIndependent ==
    u_pc \in health_check_positions =>
        /\ DOMAIN u_out = {"vector_store", "embedder", "response_generator"}
        /\ u_pc # "health_check_returned" => ENABLED NextUnits
        /\ u_pc = "health_check_returned" =>
             /\ u_out.vector_store =
                    CASE u_in.vector_store = "True" -> "healthy"
                      [] u_in.vector_store = "False" -> "no_collection"
                      [] OTHER -> error_status(u_in.vector_store)
             /\ u_out.embedder =
                    CASE u_in.embedder = "vector" -> "healthy"
                      [] u_in.embedder \in {"empty list", "None"} -> "error: empty embedding"
                      [] u_in.embedder = "raises: timed out" -> "error: timed out"
                      [] OTHER -> "error: invalid api key"
             /\ u_out.response_generator =
                    CASE u_in.response_generator = "client" -> "healthy"
                      [] u_in.response_generator = "None" -> "unknown"
                      [] OTHER -> "error: no attribute"

\* C18 witness: the index has no collection and the embedder probe raised,
\* and the response generator was still probed and found healthy
C18_Witness ==
    /\ u_pc = "health_check_returned"
    /\ u_in.vector_store = "False"
    /\ u_out.vector_store = "no_collection"
    /\ u_in.embedder = "raises: timed out"
    /\ u_out.embedder = "error: timed out"
    /\ u_out.response_generator = "healthy"

\* the mode is selected-text and a selection is present
selection_present ==
    /\ request.query_mode = "selected-text"
    /\ request.selected_text.kind = "text"
    /\ CharLen(request.selected_text) > 0

\* the steps of process_query in their order, for the request at hand
steps_in_order ==
    IF selection_present
    THEN <<"Retrieving", "SelectedTextFiltering", "ContextAssembled", "Generating",
           "CitationsExtracted", "Done">>
    ELSE <<"Retrieving", "ContextAssembled", "Generating", "CitationsExtracted", "Done">>

\* C19: the steps of process_query occur in the order Retrieving,
\* [SelectedTextFiltering], ContextAssembled, Generating, CitationsExtracted,
\* Done, each at most once; the filtering step, the selection-enhanced
\* context and the selected-text prompt occur exactly when the mode is
\* selected-text and a selection is present; the completion call is not
\* issued before retrieval and filtering have finished.
C19_StepsInOrder ==
    /\ Len(trace) <= Len(steps_in_order)
    /\ trace = SubSeq(steps_in_order, 1, Len(trace))
    /\ pc = "done" => trace = steps_in_order
    /\ (\E i \in 1..Len(trace) : trace[i] = "SelectedTextFiltering") => selection_present
    /\ (\E i \in 1..Len(trace) : trace[i] = "ContextAssembled") =>
           (context.highlighted.kind = "text" <=> selection_present)
    /\ context.highlighted.kind = "text" => context.highlighted = request.selected_text
    /\ generated.prompt # "none" =>
           (generated.prompt = "selected-text" <=> selection_present)
    /\ calls.complete > 0 =>
           /\ Len(trace) >= (IF selection_present THEN 3 ELSE 2)
           /\ calls.search = 1

\* C19 witness: a selected-text query went through all six steps
C19_Witness ==
    /\ pc = "done"
    /\ selection_present
    /\ trace = <<"Retrieving", "SelectedTextFiltering", "ContextAssembled", "Generating",
                 "CitationsExtracted", "Done">>
    /\ generated.prompt = "selected-text"
    /\ context.highlighted = request.selected_text

expected_embeddings == IF selection_present THEN 2 ELSE 1

\* C20: within one process_query no remote call is repeated: a full-book
\* query that completes has made one embedding call, one search and one
\* completion call, a selected-text query two embedding calls, one search
\* and one completion call; a failing remote call is the last one made.
C20_NoRetry ==
    /\ calls.embed <= expected_embeddings
    /\ calls.search <= 1
    /\ calls.complete <= 1
    /\ pc = "done" =>
           calls = [embed |-> expected_embeddings, search |-> 1, complete |-> 1]
    /\ "embedding" \in faults => calls.search = 0 /\ calls.complete = 0
    /\ "search" \in faults =>
           calls = [embed |-> expected_embeddings, search |-> 1, complete |-> 0]
    /\ "completion" \in faults =>
           calls = [embed |-> expected_embeddings, search |-> 1, complete |-> 1]
    /\ pc = "failed" => ~ENABLED Next

\* C20 witness: in a selected-text query the first embedding call failed
\* and nothing was called after it
C20_Witness ==
    /\ pc = "failed"
    /\ selection_present
    /\ faults = {"embedding"}
    /\ calls = [embed |-> 1, search |-> 0, complete |-> 0]

\* C30: when the collection-listing call fails, health_check reports the
\* vector_store component with an error status, never "no_collection"
C30_UnreachableIndexIsError ==
    (u_pc = "health_check_returned" /\ raises_listing(u_in.index)) =>
        /\ u_out.vector_store # "no_collection"
        /\ startswith(u_out.vector_store, "error: ")

\* C22: every iteration of the loop of chunk_text moves the window start
\* strictly forward, so the loop ends with at most one chunk per word of the
\* text, for every chunk_size and overlap_size the constructor accepts
C22_ForwardProgress ==
    /\ (c_pc = "loop" /\ chunks # <<>>) => start_idx > chunks[Len(chunks)].start
    /\ c_pc \in {"loop", "returned"} => Len(chunks) <= Len(c_in.text)

\* the words start..end of the text being chunked as they stand in the text,
\* with the whitespace that separates them there
orig_window(c) ==
    first_words(SubSeq(c_in.text, c.start + 1, c.end), c.end - c.start)

\* the paragraph breaks of a window that begin in its back half
breaks_in_back_half(win) ==
    {i \in 1..(Len(win) - 1) :
        win[i].sep = "\n\n" /\ 2 * word_end(win, i) > text_len(win)}

\* the sentence ends (., ! or ? and the whitespace after it) of a window
\* that fall in its back half
sentence_ends_in_back_half(win) ==
    {i \in 1..(Len(win) - 1) :
        /\ ends_sentence(win[i].w)
        /\ 2 * (word_end(win, i) + Len(win[i].sep)) > text_len(win)}

has_paragraph_break(win) == \E i \in 1..(Len(win) - 1) : win[i].sep = "\n\n"

\* C23: with respect_boundaries on, a window that stops before the end of
\* the text is emitted up to a paragraph break of its back half if it has
\* one, else up to its last sentence end of the back half, else whole; the
\* final window is emitted whole
C23_TrimAtBoundary ==
    (c_pc = "returned" /\ c_in.respect_boundaries) =>
        \A k \in 1..Len(chunks) :
            LET c == chunks[k]
                win == orig_window(c)
                ends == sentence_ends_in_back_half(win)
            IN  (c.start >= 0 /\ c.end > c.start) =>
                    IF c.end >= Len(c_in.text)
                    THEN split(c.text) = split(win)
                    ELSE IF breaks_in_back_half(win) # {}
                    THEN Len(c.text) \in breaks_in_back_half(win)
                    ELSE IF has_paragraph_break(win)
                    THEN TRUE
                    ELSE IF ends # {}
                    THEN \A i \in ends : i <= Len(c.text) /\ Len(c.text) \in ends
                    ELSE split(c.text) = split(win)

\* upsert_chunks called on its own has left its first loop
upsert_chunks_entered ==
    g_in.program = "upsert_chunks" /\ g_pc \in {"upsert", "returned", "raised"}

\* C24: upsert_chunks with a chunk whose embedding is None raises ValueError
\* before any request is sent to the index, and every stored point holds
\* the non-empty embedding of a chunk of the list
C24_MissingEmbeddingIsFatal ==
    /\ (upsert_chunks_entered
        /\ \E k \in 1..Len(g_chunks) : g_chunks[k].embedding.is_none) =>
            /\ g_pc = "raised"
            /\ g_out.exc = "ValueError: no embedding"
            /\ requests = <<>>
    /\ g_in.program \in {"upsert_chunks", "ingest_content"} =>
           \A p \in index.points : ~p.vector.is_none /\ p.vector.len > 0
    /\ g_in.program = "upsert_chunks" =>
           \A p \in index.points :
               \E k \in 1..Len(g_chunks) :
                   /\ g_chunks[k].source = p.source
                   /\ g_chunks[k].embedding = p.vector

\* C24 witness: the last of 201 chunks has no embedding, the collection
\* exists, and upsert_chunks raised without sending one of the three batches
C24_Witness ==
    /\ upsert_chunks_entered
    /\ g_runs = 1
    /\ Len(g_chunks) = 2 * batch_size + 1
    /\ g_chunks[Len(g_chunks)].embedding.is_none
    /\ ~g_chunks[1].embedding.is_none
    /\ index = Collection(dimension_ada_002)
    /\ g_pc = "raised"
    /\ requests = <<>>

\* C25: when a batch of upsert_chunks fails, the caller is told how many
\* points were upserted before it, and these points remain stored
C25_FailureReportsCount ==
    (g_in.program \in {"upsert_chunks", "ingest_content"}
     /\ g_pc = "raised" /\ g_out.exc = "client.upsert failed") =>
        /\ g_out.told = {g_i}
        /\ \A k \in 1..g_i : \E p \in index.points : p.id = g_points[k].id

\* C26: ingest_content never sends vectors to a collection created with
\* another vector size
C26_NoUpsertIntoOtherDimension ==
    g_in.program = "ingest_content" =>
        \A k \in 1..Len(requests) :
            requests[k].exists => requests[k].lens \subseteq {requests[k].size}

\* C27: the id of a point is a function of its chunk alone, in every
\* process: the index never holds two points of the same chunk under
\* different ids; and every id lies in 0 .. 2^(HashBits-1) - 1
C27_PointIdFromChunkIdAlone ==
    g_in.program \in {"upsert_chunks", "ingest_content"} =>
        /\ \A p \in index.points : p.id \in 0..(2 ^ (HashBits - 1) - 1)
        /\ \A p, q \in index.points : p.source = q.source => p.id = q.id

\* C28: chunks of one run of ingest_content that come from distinct
\* (document, section, chunk index) triples have distinct chunk_ids
C28_DistinctChunkIds ==
    g_in.program = "ingest_content" =>
        \A i, j \in 1..Len(g_chunks) :
            g_chunks[i].source # g_chunks[j].source =>
                g_chunks[i].chunk_id # g_chunks[j].chunk_id

\* C29: the points created in one run of simple_ingest have pairwise
\* distinct ids
C29_DistinctPointIds ==
    g_in.program = "simple_ingest" =>
        \A i, j \in 1..Len(g_points) : i # j => g_points[i].id # g_points[j].id

\* C21: in every interleaving of two calls of process_query the attributes
\* of the singleton keep their values and each call that returns, returns
\* the answer it gives for its request and its remote answers when run alone
C21_CallsIndependent ==
    /\ service = ServiceFields
    /\ \A i \in CallIds :
           q_calls[i].pc = "done" =>
               q_calls[i].answer =
                   process_query_alone(q_calls[i].request, q_calls[i].found,
                                       q_calls[i].response)

\* C21 witness: a selected-text call and a full-book call ran interleaved
\* and returned different answers
C21_Witness ==
    /\ q_calls[1].pc = "done" /\ q_calls[2].pc = "done"
    /\ q_calls[1].overlapped /\ q_calls[2].overlapped
    /\ selected_branch(q_calls[1].request)
    /\ ~selected_branch(q_calls[2].request)
    /\ q_calls[1].answer.present /\ q_calls[2].answer.present
    /\ q_calls[1].answer # q_calls[2].answer
    /\ q_calls[1].retrieved_chunks # q_calls[2].retrieved_chunks

=============================================================================
